---- MODULE Spec2Model ----
(***************************************************************************)
(* Model of the schema validation scripts of the huitzo site repository:   *)
(*   scripts/validate-plugins.js  (validate-records command, batch run)    *)
(*   scripts/validate-roadmap.js  (validate-roadmap command, one record)   *)
(* of the documentation generator scripts/generate-plugin-docs.js, of the  *)
(* site loader loadAllPlugins in src/utils/plugins.ts, and of the          *)
(* deployment validation script (bash).                                    *)
(*                                                                         *)
(* Strings that the scripts build by concatenation are modelled as         *)
(* sequences of string tokens (a template literal  `a ${x} b`  becomes     *)
(* <<"a ", x, " b">>), so that "the output contains the pattern text" is a *)
(* statement about tokens.  Numbers interpolated into a string go through  *)
(* ToString.  JSON values are tagged records: Str, Num, Obj.               *)
(*                                                                         *)
(* The compiled Ajv validator is modelled by the JSON-Schema keywords the  *)
(* data schemas use (type, enum, maximum, minimum, maxLength, minLength,   *)
(* pattern, minProperties, required, additionalProperties, properties)     *)
(* with the options the scripts pass to                                    *)
(* new Ajv(...): allErrors collects every error instead of returning at    *)
(* the first one.                                                          *)
(***************************************************************************)
EXTENDS Integers, Sequences, FiniteSets, TLC

VARIABLES
    fsSchema,       \* the schema file: [kind |-> "missing"|"malformed"|"json", doc |-> schema]
    fsDirReadable,  \* whether readdirSync(pluginsDir) succeeds
    fsDir,          \* the directory listing: a sequence of entry names
    fsFiles,        \* content of each record file of the listing
    pc,             \* position in main()
    schema,         \* let schema
    compiled,       \* let validate: TRUE once ajv.compile(schema) returned
    validateErrors, \* validate.errors as left by the last validate(...) call
    validateCalls,  \* the data passed to validate(...), in call order
    filesRead,      \* the record files handed to readFileSync, in call order
    pluginFiles,    \* let pluginFiles
    idx,            \* forEach position in pluginFiles (number of files done)
    totalErrors,    \* let totalErrors
    results,        \* const results
    printed,        \* forEach position in results (number of results printed)
    console,        \* lines written with console.log / warn / error, in order
    exitCode,       \* the status the process ends with
    vSchema,        \* single validation: the schema document
    vData,          \* single validation: the data record
    vErrors,        \* single validation: validate.errors after the call
    vLines,         \* single validation: validateAgainstSchema's return value
    vDone,          \* single validation: whether validate(...) has run
    fsRoadmap,      \* validate-roadmap: the roadmap file, like fsSchema
    roadmap,        \* validate-roadmap: let roadmap
    docSchema,      \* generate-docs: the schema handed to generateMarkdown
    clock,          \* generate-docs: the time new Date() returns
    markdown,       \* generate-docs: the lines of the last rendering
    previous,       \* generate-docs: the lines of the rendering before it
    renders,        \* generate-docs: number of renderings done
    thrown,         \* generate-docs: whether the last generateMarkdown call threw
    fsDocs,         \* generate-docs: the output file SCHEMA.md
    fsDocsWrite,    \* generate-docs: what writeFileSync(docsPath, ...) will do
    pluginModules,  \* loadAllPlugins: what import.meta.glob returned
    plugins,        \* loadAllPlugins: const plugins, and what is returned
    outcomes,       \* deployment script: what each check of the run finds
    arithErrexit,   \* deployment script: whether set -e applies to (( ))
    CHECKS_TOTAL,   \* deployment script: the counter of that name
    CHECKS_PASSED,  \* deployment script: the counter of that name
    CHECKS_FAILED   \* deployment script: the counter of that name

batchVars == <<fsSchema, fsDirReadable, fsDir, fsFiles, pc, schema, compiled,
               validateErrors, validateCalls, filesRead, pluginFiles, idx,
               totalErrors, results, printed, console, exitCode>>
singleVars == <<vSchema, vData, vErrors, vLines, vDone>>
roadmapVars == <<fsRoadmap, roadmap>>
docVars == <<docSchema, clock, markdown, previous, renders, thrown, fsDocs,
             fsDocsWrite>>
loaderVars == <<pluginModules, plugins>>
shellVars == <<outcomes, arithErrexit, CHECKS_TOTAL, CHECKS_PASSED, CHECKS_FAILED>>
vars == <<batchVars, singleVars, roadmapVars, docVars, loaderVars, shellVars>>

-----------------------------------------------------------------------------
(* Bounds of the model.                                                    *)

\* most record files in the directory
MaxFiles == 3
\* largest numeric limit (minLength, maxLength, minimum, maximum) in a schema
MaxLimit == 2
\* most renderings of one schema by the documentation generator
MaxRenders == 2
\* the longest list of checks a run of the deployment script goes through
MaxChecks == 4

-----------------------------------------------------------------------------
(* JSON values.                                                            *)

Str(s) == [t |-> "string", s |-> s]
Num(n) == [t |-> "number", n |-> n]
Obj(o) == [t |-> "object", o |-> o]
Null == [t |-> "null"]

Has(rec, key) == key \in DOMAIN rec

RECURSIVE Concat(_)
Concat(seqs) == IF seqs = <<>> THEN <<>> ELSE Head(seqs) \o Concat(Tail(seqs))

\* Array.prototype.join on an array of strings
RECURSIVE Join(_, _)
Join(arr, sep) ==
    IF Len(arr) = 0 THEN <<>>
    ELSE IF Len(arr) = 1 THEN <<arr[1]>>
    ELSE <<arr[1], sep>> \o Join(Tail(arr), sep)

\* a JSON pointer: "/a/b" for the property path <<"a", "b">>, "" for the root
JsonPointer(path) == Concat([i \in 1..Len(path) |-> <<"/", path[i]>>])

-----------------------------------------------------------------------------
(* Regular expressions, over the strings the model draws values from.      *)

KebabPattern == "^[a-z0-9]+(-[a-z0-9]+)*$"
BadPattern == "([a-z"

Strings == {"", "a", "my-plugin", "My_Plugin", "finance", "sports"}

\* new RegExp(pattern) throws on a pattern that is no regular expression
ValidRegExp(pattern) == pattern # BadPattern

\* RegExp.prototype.test
RegExpTest(pattern, s) ==
    CASE pattern = KebabPattern -> s \in {"a", "my-plugin", "finance", "sports"}
      [] OTHER -> FALSE

-----------------------------------------------------------------------------
(* The Ajv instance and the validator it compiles.                         *)

AjvOptionsFirstErrorOnly == [allErrors |-> FALSE, verbose |-> TRUE, strict |-> FALSE]

\* new Ajv({ allErrors: true, verbose: true, strict: false })
AjvOptions == [allErrors |-> TRUE, verbose |-> TRUE, strict |-> FALSE]

JSONTypes == {"string", "number", "object"}

\* ajv.compile(schema) throws on a schema that is no valid JSON Schema: an
\* unknown type name, a pattern that is no regular expression
RECURSIVE ValidSchema(_)
ValidSchema(node) ==
    /\ Has(node, "type") => node.type \in JSONTypes
    /\ Has(node, "pattern") => ValidRegExp(node.pattern)
    /\ Has(node, "properties") =>
          \A i \in 1..Len(node.properties) : ValidSchema(node.properties[i].node)

AjvError(keyword, path, params, message) ==
    [keyword |-> keyword, instancePath |-> JsonPointer(path),
     params |-> params, message |-> message]

typeErrors(node, data, path) ==
    IF Has(node, "type") /\ data.t # node.type
    THEN <<AjvError("type", path, [type |-> node.type], <<"must be ", node.type>>)>>
    ELSE <<>>

enumErrors(node, data, path) ==
    IF /\ Has(node, "enum")
       /\ ~(data.t = "string" /\ \E i \in 1..Len(node.enum) : node.enum[i] = data.s)
    THEN <<AjvError("enum", path, [allowedValues |-> node.enum],
                    <<"must be equal to one of the allowed values">>)>>
    ELSE <<>>

numberErrors(node, data, path) ==
    IF data.t # "number" THEN <<>>
    ELSE (IF Has(node, "maximum") /\ data.n > node.maximum
          THEN <<AjvError("maximum", path,
                          [comparison |-> "<=", limit |-> node.maximum],
                          <<"must be <= ", ToString(node.maximum)>>)>>
          ELSE <<>>)
      \o (IF Has(node, "minimum") /\ data.n < node.minimum
          THEN <<AjvError("minimum", path,
                          [comparison |-> ">=", limit |-> node.minimum],
                          <<"must be >= ", ToString(node.minimum)>>)>>
          ELSE <<>>)

stringErrorsOffByOne(node, data, path) ==
    IF data.t # "string" THEN <<>>
    ELSE (IF Has(node, "maxLength") /\ Len(data.s) >= node.maxLength
          THEN <<AjvError("maxLength", path, [limit |-> node.maxLength],
                          <<"must NOT have more than ", ToString(node.maxLength),
                            " characters">>)>>
          ELSE <<>>)
      \o (IF Has(node, "minLength") /\ Len(data.s) <= node.minLength
          THEN <<AjvError("minLength", path, [limit |-> node.minLength],
                          <<"must NOT have fewer than ", ToString(node.minLength),
                            " characters">>)>>
          ELSE <<>>)
      \o (IF Has(node, "pattern") /\ ~RegExpTest(node.pattern, data.s)
          THEN <<AjvError("pattern", path, [pattern |-> node.pattern],
                          <<"must match pattern \"", node.pattern, "\"">>)>>
          ELSE <<>>)

stringErrors(node, data, path) ==
    IF data.t # "string" THEN <<>>
    ELSE (IF Has(node, "maxLength") /\ Len(data.s) > node.maxLength
          THEN <<AjvError("maxLength", path, [limit |-> node.maxLength],
                          <<"must NOT have more than ", ToString(node.maxLength),
                            " characters">>)>>
          ELSE <<>>)
      \o (IF Has(node, "minLength") /\ Len(data.s) < node.minLength
          THEN <<AjvError("minLength", path, [limit |-> node.minLength],
                          <<"must NOT have fewer than ", ToString(node.minLength),
                            " characters">>)>>
          ELSE <<>>)
      \o (IF Has(node, "pattern") /\ ~RegExpTest(node.pattern, data.s)
          THEN <<AjvError("pattern", path, [pattern |-> node.pattern],
                          <<"must match pattern \"", node.pattern, "\"">>)>>
          ELSE <<>>)

\* minProperties: the data object has fewer properties than the limit
minPropertiesErrors(node, data, path) ==
    IF data.t = "object" /\ Has(node, "minProperties")
       /\ Cardinality(DOMAIN data.o) < node.minProperties
    THEN <<AjvError("minProperties", path, [limit |-> node.minProperties],
                    <<"must NOT have fewer than ", ToString(node.minProperties),
                      " properties">>)>>
    ELSE <<>>

\* the required keyword reports against the object that lacks the property:
\* instancePath is the object's own path, the name is in params.missingProperty
requiredErrors(node, data, path) ==
    IF data.t # "object" \/ ~Has(node, "required") THEN <<>>
    ELSE Concat([i \in 1..Len(node.required) |->
            IF node.required[i] \in DOMAIN data.o THEN <<>>
            ELSE <<AjvError("required", path,
                            [missingProperty |-> node.required[i]],
                            <<"must have required property '", node.required[i],
                              "'">>)>>])

\* the names of a set, one after the other
RECURSIVE SetToSeq(_)
SetToSeq(S) ==
    IF S = {} THEN <<>>
    ELSE LET x == CHOOSE y \in S : TRUE IN <<x>> \o SetToSeq(S \ {x})

\* the names the properties keyword of node declares
DeclaredNames(node) ==
    IF Has(node, "properties")
    THEN {node.properties[i].name : i \in 1..Len(node.properties)}
    ELSE {}

additionalPropertiesDefaultFalse(node, data, path) ==
    IF data.t # "object" THEN <<>>
    ELSE LET extra == SetToSeq(DOMAIN data.o \ DeclaredNames(node))
         IN  [i \in 1..Len(extra) |->
                AjvError("additionalProperties", path,
                         [additionalProperty |-> extra[i]],
                         <<"must NOT have additional properties">>)]

\* a property of the data the schema does not declare is an error only where
\* the schema says additionalProperties: false; the options of new Ajv(...)
\* do not change that default
additionalPropertiesErrors(node, data, path) ==
    IF data.t # "object" \/ ~Has(node, "additionalProperties")
       \/ node.additionalProperties
    THEN <<>>
    ELSE LET extra == SetToSeq(DOMAIN data.o \ DeclaredNames(node))
         IN  [i \in 1..Len(extra) |->
                AjvError("additionalProperties", path,
                         [additionalProperty |-> extra[i]],
                         <<"must NOT have additional properties">>)]

\* every error of data against node, in the order the generated code finds them
RECURSIVE collectErrors(_, _, _)
collectErrors(node, data, path) ==
       typeErrors(node, data, path)
    \o enumErrors(node, data, path)
    \o numberErrors(node, data, path)
    \o stringErrors(node, data, path)
    \o minPropertiesErrors(node, data, path)
    \o requiredErrors(node, data, path)
    \o additionalPropertiesErrors(node, data, path)
    \o (IF data.t # "object" \/ ~Has(node, "properties") THEN <<>>
        ELSE Concat([i \in 1..Len(node.properties) |->
                IF node.properties[i].name \in DOMAIN data.o
                THEN collectErrors(node.properties[i].node,
                                   data.o[node.properties[i].name],
                                   Append(path, node.properties[i].name))
                ELSE <<>>]))

\* validate(data): the boolean it returns and validate.errors after the call
\* (null, written <<>>, when data is valid).  Without allErrors the generated
\* code returns at the first error.
validate(sch, data) ==
    LET all == collectErrors(sch, data, <<>>)
        errs == IF AjvOptions.allErrors \/ all = <<>> THEN all ELSE <<Head(all)>>
    IN  [valid |-> errs = <<>>, errors |-> errs]

-----------------------------------------------------------------------------
(* scripts/validate-plugins.js                                             *)
(* The emoji of the console messages are written as ASCII marks:           *)
(* [x] cross mark, [ok] check mark, [!] warning sign, [i] clipboard,       *)
(* [?] magnifying glass, [#] page.                                         *)

Truthy(s) == s # ""

formatErrorNoMessage(error) ==
    <<"  [x] ", error.keyword>>
    \o (IF error.instancePath # <<>> THEN <<" at ">> \o error.instancePath ELSE <<>>)

formatErrorNoParams(error) ==
    <<"  [x] ", error.keyword>>
    \o (IF error.instancePath # <<>> THEN <<" at ">> \o error.instancePath ELSE <<>>)
    \o <<": ">> \o error.message

formatError(error) ==
    LET keyword == error.keyword
        params == error.params
    IN  <<"  [x] ", keyword>>
        \o (IF error.instancePath # <<>> THEN <<" at ">> \o error.instancePath ELSE <<>>)
        \o <<": ">> \o error.message
        \o (IF Has(params, "allowedValues")
            THEN <<" (allowed: ">> \o Join(params.allowedValues, ", ") \o <<")">>
            ELSE <<>>)
        \o (IF Has(params, "pattern") /\ Truthy(params.pattern)
            THEN <<" (pattern: ", params.pattern, ")">>
            ELSE <<>>)
        \o (IF ~Has(params, "limit") THEN <<>>
            ELSE IF keyword \in {"minLength", "minimum", "minItems"}
            THEN <<" (minimum: ", ToString(params.limit), ")">>
            ELSE IF keyword \in {"maxLength", "maximum", "maxItems"}
            THEN <<" (maximum: ", ToString(params.limit), ")">>
            ELSE <<>>)

validatePluginFileNoCatch(content) ==
    IF content.kind = "json"
    THEN [valid |-> TRUE, data |-> content.doc, errors |-> <<>>]
    ELSE [valid |-> TRUE, data |-> Null, errors |-> <<>>]

validatePluginFileNoErrors(content) ==
    IF content.kind = "json"
    THEN [valid |-> TRUE, data |-> content.doc, errors |-> <<>>]
    ELSE [valid |-> FALSE, data |-> Null, errors |-> <<>>]

\* the file's text: readFileSync throws on an unreadable file, JSON.parse on
\* text that is no JSON document
validatePluginFile(content) ==
    IF content.kind = "json"
    THEN [valid |-> TRUE, data |-> content.doc, errors |-> <<>>]
    ELSE [valid |-> FALSE, data |-> Null,
          errors |-> << <<"JSON Parse Error: ", content.message>> >>]

validateAgainstSchema(plugin, sch) ==
    LET r == validate(sch, plugin)
    IN  IF ~r.valid
        THEN [i \in 1..Len(r.errors) |-> formatError(r.errors[i])]
        ELSE <<>>

-----------------------------------------------------------------------------
(* The file system a run of validate-plugins.js starts from.               *)

SchemaName == <<"schema", ".json">>
DocName == <<"SCHEMA", ".md">>
RecordName(k) == <<"plugin-", ToString(k), ".json">>

\* a record file whose name contains the schema's name, and an entry whose
\* name contains .json and does not end in it
LookalikeName == <<"my-", "schema", ".json">>
BackupName == <<"schema", ".json", ".bak">>

\* the name of the k-th record file; the first one may be the lookalike
RecordNameAt(k, lookalike) ==
    IF lookalike /\ k = 1 THEN LookalikeName ELSE RecordName(k)

RecordNames(n, lookalike) == {RecordNameAt(k, lookalike) : k \in 1..n}

\* a small plugin schema: two required string properties
PluginSchema ==
    [type |-> "object",
     required |-> <<"id", "category">>,
     properties |-> <<
        [name |-> "id",
         node |-> [type |-> "string", pattern |-> KebabPattern]],
        [name |-> "category",
         node |-> [type |-> "string", enum |-> <<"finance", "analytics", "other">>]] >>]

\* a schema document that parses as JSON and that ajv.compile rejects
BrokenSchema ==
    [type |-> "object",
     properties |-> << [name |-> "id",
                        node |-> [type |-> "string", pattern |-> BadPattern]] >>]

SchemaFiles ==
    { [kind |-> "missing", message |-> "ENOENT: no such file or directory"],
      [kind |-> "malformed", message |-> "Unexpected token } in JSON"],
      [kind |-> "json", doc |-> PluginSchema],
      [kind |-> "json", doc |-> BrokenSchema] }

ValidPlugin == Obj([id |-> Str("my-plugin"), category |-> Str("finance")])
PluginMissingCategory == Obj([id |-> Str("my-plugin")])
PluginTwoErrors == Obj([id |-> Str("My_Plugin"), category |-> Str("sports")])

RecordFiles ==
    { [kind |-> "unreadable", message |-> "EACCES: permission denied"],
      [kind |-> "malformed", message |-> "Unexpected end of JSON input"],
      [kind |-> "json", doc |-> ValidPlugin],
      [kind |-> "json", doc |-> PluginMissingCategory],
      [kind |-> "json", doc |-> PluginTwoErrors] }

\* a listing of n record files, with schema.json (when the file exists) after
\* the first p of them and, when md, the entries that are no record files:
\* SCHEMA.md in front and schema.json.bak at the end
Listing(n, p, withSchema, md, lookalike) ==
    LET records == [k \in 1..n |-> RecordNameAt(k, lookalike)]
    IN  (IF md THEN <<DocName>> ELSE <<>>)
        \o SubSeq(records, 1, p)
        \o (IF withSchema THEN <<SchemaName>> ELSE <<>>)
        \o SubSeq(records, p + 1, n)
        \o (IF md THEN <<BackupName>> ELSE <<>>)

NoSchema == <<>>

BatchInit ==
    /\ fsSchema \in SchemaFiles
    /\ fsDirReadable \in BOOLEAN
    /\ \E n \in 0..MaxFiles, lookalike \in BOOLEAN :
          /\ lookalike => n > 0
          /\ \E p \in 0..n, md \in BOOLEAN :
                /\ lookalike => md
                /\ fsDir = Listing(n, p, fsSchema.kind # "missing", md, lookalike)
          /\ fsFiles \in [RecordNames(n, lookalike) -> RecordFiles]
    /\ pc = "loadSchema"
    /\ schema = NoSchema
    /\ compiled = FALSE
    /\ validateErrors = <<>>
    /\ validateCalls = <<>>
    /\ filesRead = <<>>
    /\ pluginFiles = <<>>
    /\ idx = 0
    /\ totalErrors = 0
    /\ results = <<>>
    /\ printed = 0
    /\ console = <<>>
    /\ exitCode = 0

SingleIdle ==
    /\ vSchema = NoSchema
    /\ vData = Str("")
    /\ vErrors = <<>>
    /\ vLines = <<>>
    /\ vDone = FALSE

RoadmapIdle ==
    /\ fsRoadmap = [kind |-> "missing", message |-> "ENOENT: no such file or directory"]
    /\ roadmap = Null

DocIdle ==
    /\ docSchema = NoSchema
    /\ clock = 0
    /\ markdown = <<>>
    /\ previous = <<>>
    /\ renders = 0
    /\ thrown = FALSE
    /\ fsDocs = [kind |-> "missing"]
    /\ fsDocsWrite = "ok"

LoaderIdle ==
    /\ pluginModules = <<>>
    /\ plugins = <<>>

ShellIdle ==
    /\ outcomes = <<>>
    /\ arithErrexit = FALSE
    /\ CHECKS_TOTAL = 0
    /\ CHECKS_PASSED = 0
    /\ CHECKS_FAILED = 0

Init ==
    /\ BatchInit
    /\ SingleIdle
    /\ RoadmapIdle
    /\ DocIdle
    /\ LoaderIdle
    /\ ShellIdle

-----------------------------------------------------------------------------
(* main() of scripts/validate-plugins.js                                   *)

Line(stream, text) == [stream |-> stream, text |-> text]

ExitStatusZero(lines, code) ==
    /\ console' = console \o lines
    /\ exitCode' = 0
    /\ pc' = "exited"

\* process.exit(code) after the lines it was preceded by
Exit(lines, code) ==
    /\ console' = console \o lines
    /\ exitCode' = code
    /\ pc' = "exited"

\* path.join(pluginsDir, file) and path.basename of it
PathJoin(dir, file) == [dir |-> dir, base |-> file]
Basename(filePath) == filePath.base

EndsWith(file, suffix) == Len(file) > 0 /\ file[Len(file)] = suffix

IsPluginFileNoExclusion(file) == EndsWith(file, ".json")

IsPluginFile(file) == EndsWith(file, ".json") /\ file # SchemaName

\* try { schema = JSON.parse(readFileSync(schemaPath)) } catch { exit(1) }
LoadSchema ==
    /\ pc = "loadSchema"
    /\ \/ /\ fsSchema.kind = "json"
          /\ schema' = fsSchema.doc
          /\ console' = console \o
                <<Line("log", <<"[i] Schema loaded from ">> \o SchemaName \o <<"\n">>)>>
          /\ pc' = "compile"
          /\ UNCHANGED exitCode
       \/ /\ fsSchema.kind # "json"
          /\ Exit(<<Line("error", <<"[x] Failed to load schema: ", fsSchema.message>>)>>, 1)
          /\ UNCHANGED schema
    /\ UNCHANGED <<fsSchema, fsDirReadable, fsDir, fsFiles, compiled, validateErrors,
                   validateCalls, filesRead, pluginFiles, idx, totalErrors, results,
                   printed>>
    /\ UNCHANGED <<singleVars, roadmapVars, docVars, loaderVars, shellVars>>

\* try { validate = ajv.compile(schema) } catch { exit(1) }
CompileSchema ==
    /\ pc = "compile"
    /\ \/ /\ ValidSchema(schema)
          /\ compiled' = TRUE
          /\ pc' = "findFiles"
          /\ UNCHANGED <<console, exitCode>>
       \/ /\ ~ValidSchema(schema)
          /\ Exit(<<Line("error", <<"[x] Failed to compile schema: ",
                                    "schema is invalid">>)>>, 1)
          /\ UNCHANGED compiled
    /\ UNCHANGED <<fsSchema, fsDirReadable, fsDir, fsFiles, schema, validateErrors,
                   validateCalls, filesRead, pluginFiles, idx, totalErrors, results,
                   printed>>
    /\ UNCHANGED <<singleVars, roadmapVars, docVars, loaderVars, shellVars>>

\* readdirSync(pluginsDir).filter(...).map(...), the empty check, and the
\* initialisation of totalErrors and results
FindPluginFiles ==
    /\ pc = "findFiles"
    /\ \/ /\ ~fsDirReadable
          /\ Exit(<<Line("error", <<"[x] Failed to read plugins directory: ",
                                    "EACCES: permission denied">>)>>, 1)
          /\ UNCHANGED pluginFiles
       \/ /\ fsDirReadable
          /\ LET found == [i \in 1..Len(SelectSeq(fsDir, IsPluginFile)) |->
                              PathJoin("plugins", SelectSeq(fsDir, IsPluginFile)[i])]
             IN  /\ pluginFiles' = found
                 /\ \/ /\ Len(found) = 0
                       /\ console' = console \o
                             <<Line("warn", <<"[!]  No plugin files found to validate">>)>>
                       /\ pc' = "exited"
                       /\ UNCHANGED exitCode
                    \/ /\ Len(found) > 0
                       /\ console' = console \o
                             <<Line("log", <<"[?] Validating ", ToString(Len(found)),
                                             " plugin file(s)...\n">>)>>
                       /\ pc' = "forEach"
                       /\ UNCHANGED exitCode
    /\ UNCHANGED <<fsSchema, fsDirReadable, fsDir, fsFiles, schema, compiled,
                   validateErrors, validateCalls, filesRead, idx, totalErrors,
                   results, printed>>
    /\ UNCHANGED <<singleVars, roadmapVars, docVars, loaderVars, shellVars>>

\* totalErrors += errors.length
addErrorsOnePerRecord(total, errors) == total + 1

addErrors(total, errors) == total + Len(errors)

\* results.push({ file, status: "error", errors: parseResult.errors }); return
pushParseErrorDropped(rs, fileName, errors) == rs

pushParseError(rs, fileName, errors) ==
    Append(rs, [file |-> fileName, status |-> "error", errors |-> errors])

\* results.push({ file, status: "error", errors: schemaErrors })
pushSchemaError(rs, fileName, errors) ==
    Append(rs, [file |-> fileName, status |-> "error", errors |-> errors])

\* results.push({ file, status: "success", errors: [] })
pushSuccess(rs, fileName) ==
    Append(rs, [file |-> fileName, status |-> "success", errors |-> <<>>])

\* a validator whose errors property is appended to and never reset
validateCallKeepingErrors(before, sch, data) ==
    before \o validate(sch, data).errors

\* validate(plugin) on the one compiled validator: its errors property after
\* the call, whatever the property held before
validateCall(before, sch, data) == validate(sch, data).errors

\* one call of the forEach callback over pluginFiles
ValidateFile ==
    /\ pc = "forEach"
    /\ idx < Len(pluginFiles)
    /\ LET filePath == pluginFiles[idx + 1]
           fileName == Basename(filePath)
           parseResult == validatePluginFile(fsFiles[filePath.base])
       IN  /\ filesRead' = Append(filesRead, fileName)
           /\ \/ /\ ~parseResult.valid
                 /\ totalErrors' = addErrors(totalErrors, parseResult.errors)
                 /\ results' = pushParseError(results, fileName, parseResult.errors)
                 /\ UNCHANGED <<validateErrors, validateCalls>>
              \/ /\ parseResult.valid
                 /\ validateErrors' = validateCall(validateErrors, schema, parseResult.data)
                 /\ validateCalls' = Append(validateCalls, fileName)
                 /\ LET \* validateAgainstSchema: validate.errors.map(formatError)
                        schemaErrors == [i \in 1..Len(validateErrors') |->
                                            formatError(validateErrors'[i])]
                    IN  \/ /\ Len(schemaErrors) > 0
                           /\ totalErrors' = addErrors(totalErrors, schemaErrors)
                           /\ results' = pushSchemaError(results, fileName, schemaErrors)
                        \/ /\ Len(schemaErrors) = 0
                           /\ results' = pushSuccess(results, fileName)
                           /\ UNCHANGED totalErrors
    /\ idx' = idx + 1
    /\ pc' = IF idx + 1 = Len(pluginFiles) THEN "print" ELSE "forEach"
    /\ UNCHANGED <<fsSchema, fsDirReadable, fsDir, fsFiles, schema, compiled,
                   pluginFiles, printed, console, exitCode>>
    /\ UNCHANGED <<singleVars, roadmapVars, docVars, loaderVars, shellVars>>

\* a failed record's errors printed above its own line
resultLinesErrorsFirst(result) ==
    IF result.status = "success"
    THEN <<Line("log", <<"[ok] ">> \o result.file)>>
    ELSE [i \in 1..Len(result.errors) |-> Line("log", result.errors[i])]
         \o <<Line("log", <<"[x] ">> \o result.file)>>
         \o <<Line("log", <<"">>)>>

resultLinesFailuresOnly(result) ==
    IF result.status = "success" THEN <<>>
    ELSE <<Line("log", <<"[x] ">> \o result.file)>>
         \o [i \in 1..Len(result.errors) |-> Line("log", result.errors[i])]
         \o <<Line("log", <<"">>)>>

\* what the print callback writes for one result
resultLines(result) ==
    IF result.status = "success"
    THEN <<Line("log", <<"[ok] ">> \o result.file)>>
    ELSE <<Line("log", <<"[x] ">> \o result.file)>>
         \o [i \in 1..Len(result.errors) |-> Line("log", result.errors[i])]
         \o <<Line("log", <<"">>)>>

\* one call of the forEach callback over results
PrintResult ==
    /\ pc = "print"
    /\ printed < Len(results)
    /\ console' = console \o resultLines(results[printed + 1])
    /\ printed' = printed + 1
    /\ pc' = IF printed + 1 = Len(results) THEN "summary" ELSE "print"
    /\ UNCHANGED <<fsSchema, fsDirReadable, fsDir, fsFiles, schema, compiled,
                   validateErrors, validateCalls, filesRead, pluginFiles, idx,
                   totalErrors, results, exitCode>>
    /\ UNCHANGED <<singleVars, roadmapVars, docVars, loaderVars, shellVars>>

\* results.filter((r) => r.status === status).length
CountStatus(rs, status) == Len(SelectSeq(rs, LAMBDA r : r.status = status))

SummaryLines(successCount, errorCount, total) ==
    << Line("log", <<"---\n">>),
       Line("log", <<"[#] Validation Summary:">>),
       Line("log", <<"  [ok] Passed: ", ToString(successCount)>>),
       Line("log", <<"  [x] Failed: ", ToString(errorCount)>>),
       Line("log", <<"  [!]  Errors: ", ToString(total), "\n">>) >>

summaryFailsNever(total) == FALSE

\* if (totalErrors > 0)
summaryFails(total) == total > 0

\* the summary and the exit status
Summary ==
    /\ pc = "summary"
    /\ LET successCount == CountStatus(results, "success")
           errorCount == CountStatus(results, "error")
           lines == SummaryLines(successCount, errorCount, totalErrors)
       IN  \/ /\ summaryFails(totalErrors)
              /\ Exit(lines \o <<Line("error",
                        <<"[x] Validation failed. Please fix the errors above.">>)>>, 1)
           \/ /\ ~summaryFails(totalErrors)
              /\ Exit(lines \o <<Line("log",
                        <<"[ok] All plugins validated successfully!">>)>>, 0)
    /\ UNCHANGED <<fsSchema, fsDirReadable, fsDir, fsFiles, schema, compiled,
                   validateErrors, validateCalls, filesRead, pluginFiles, idx,
                   totalErrors, results, printed>>
    /\ UNCHANGED <<singleVars, roadmapVars, docVars, loaderVars, shellVars>>

Next ==
    \/ LoadSchema
    \/ CompileSchema
    \/ FindPluginFiles
    \/ ValidateFile
    \/ PrintResult
    \/ Summary

Spec == Init /\ [][Next]_vars

-----------------------------------------------------------------------------
(* One validation: validateAgainstSchema on a schema and a data record     *)
(* drawn from bounded sets.                                                *)

RequiredLists == { <<>>, <<"id", "category">>, <<"category", "pricing", "id">> }

IdNodes ==
    {[type |-> "string", pattern |-> KebabPattern]}
    \cup {[type |-> "string", minLength |-> k, pattern |-> KebabPattern] :
             k \in 0..MaxLimit}
    \cup {[type |-> "string", maxLength |-> k] : k \in 0..MaxLimit}

CategoryNode == [type |-> "string", enum |-> <<"finance", "analytics", "other">>]

PriceNodes ==
    {[type |-> "number"]}
    \cup {[type |-> "number", minimum |-> ab[1], maximum |-> ab[2]] :
             ab \in {x \in (0..MaxLimit) \X (0..MaxLimit) : x[1] <= x[2]}}

PricingNodes ==
    {[type |-> "object", required |-> <<"price">>,
      properties |-> <<[name |-> "price", node |-> pn]>>] : pn \in PriceNodes}

Schemas ==
    {[type |-> "object", required |-> r,
      properties |-> <<[name |-> "id", node |-> idn],
                       [name |-> "category", node |-> CategoryNode],
                       [name |-> "pricing", node |-> prn]>>] :
        r \in RequiredLists, idn \in IdNodes, prn \in PricingNodes}

\* a property the data object does not have
Absent == [t |-> "absent"]

IdValues == {Str(v) : v \in {"", "a", "my-plugin", "My_Plugin"}} \cup {Num(1)}
CategoryValues == {Str("finance"), Str("sports")}
PricingValues ==
    {Obj(<<>>), Str("a")} \cup {Obj([price |-> Num(n)]) : n \in (-1)..(MaxLimit + 1)}

\* the object with the properties that are not Absent
ObjectOf(id, category, pricing) ==
    LET all == [id |-> id, category |-> category, pricing |-> pricing]
    IN  Obj([k \in {n \in DOMAIN all : all[n] # Absent} |-> all[k]])

DataRecords ==
    {ObjectOf(i, c, pr) : i \in IdValues \cup {Absent},
                          c \in CategoryValues \cup {Absent},
                          pr \in PricingValues \cup {Absent}}
    \cup {Null, Str("a")}

BatchIdle ==
    /\ fsSchema = [kind |-> "missing", message |-> "ENOENT: no such file or directory"]
    /\ fsDirReadable = FALSE
    /\ fsDir = <<>>
    /\ fsFiles = <<>>
    /\ pc = "idle"
    /\ schema = NoSchema
    /\ compiled = FALSE
    /\ validateErrors = <<>>
    /\ validateCalls = <<>>
    /\ filesRead = <<>>
    /\ pluginFiles = <<>>
    /\ idx = 0
    /\ totalErrors = 0
    /\ results = <<>>
    /\ printed = 0
    /\ console = <<>>
    /\ exitCode = 0

InitValidator ==
    /\ vSchema \in Schemas
    /\ vData \in DataRecords
    /\ vErrors = <<>>
    /\ vLines = <<>>
    /\ vDone = FALSE
    /\ BatchIdle
    /\ RoadmapIdle
    /\ DocIdle
    /\ LoaderIdle
    /\ ShellIdle

\* validateAgainstSchema(plugin, schema, validate)
ValidateOnce ==
    /\ ~vDone
    /\ vErrors' = validate(vSchema, vData).errors
    /\ vLines' = validateAgainstSchema(vData, vSchema)
    /\ vDone' = TRUE
    /\ UNCHANGED <<vSchema, vData>>
    /\ UNCHANGED <<batchVars, roadmapVars, docVars, loaderVars, shellVars>>

NextValidator == ValidateOnce

SpecValidator == InitValidator /\ [][NextValidator]_vars

\* records that carry a top-level property no schema here declares, validated
\* against schemas that say nothing about additional properties and against
\* the same schemas closed with additionalProperties: false
ExtraName == "extra"

WithExtra(data, value) ==
    IF value = Absent THEN data ELSE Obj(data.o @@ (ExtraName :> value))

WithoutExtra(data) ==
    Obj([k \in DOMAIN data.o \ {ExtraName} |-> data.o[k]])

OpenSchemas == {sch \in Schemas : sch.required = <<"id", "category">>}

ClosedSchemas ==
    {[type |-> sch.type, required |-> sch.required, properties |-> sch.properties,
      additionalProperties |-> FALSE] : sch \in OpenSchemas}

ExtraRecords ==
    {WithExtra(d, x) : d \in {r \in DataRecords : r.t = "object"},
                       x \in {Absent, Str("a")}}

InitPermissive ==
    /\ vSchema \in OpenSchemas \cup ClosedSchemas
    /\ vData \in ExtraRecords
    /\ vErrors = <<>>
    /\ vLines = <<>>
    /\ vDone = FALSE
    /\ BatchIdle
    /\ RoadmapIdle
    /\ DocIdle
    /\ LoaderIdle
    /\ ShellIdle

SpecPermissive == InitPermissive /\ [][NextValidator]_vars

-----------------------------------------------------------------------------
(* scripts/validate-roadmap.js: one schema file, one record file.          *)

RoadmapSchemaName == <<"roadmap", ".schema", ".json">>
RoadmapName == <<"roadmap", ".json">>

\* formatError of validate-roadmap.js: the one of validate-plugins.js with
\* minProperties among the keywords whose limit is a minimum
formatErrorRoadmap(error) ==
    LET keyword == error.keyword
        params == error.params
    IN  <<"  [x] ", keyword>>
        \o (IF error.instancePath # <<>> THEN <<" at ">> \o error.instancePath ELSE <<>>)
        \o <<": ">> \o error.message
        \o (IF Has(params, "allowedValues")
            THEN <<" (allowed: ">> \o Join(params.allowedValues, ", ") \o <<")">>
            ELSE <<>>)
        \o (IF Has(params, "pattern") /\ Truthy(params.pattern)
            THEN <<" (pattern: ", params.pattern, ")">>
            ELSE <<>>)
        \o (IF ~Has(params, "limit") THEN <<>>
            ELSE IF keyword \in {"minLength", "minimum", "minItems", "minProperties"}
            THEN <<" (minimum: ", ToString(params.limit), ")">>
            ELSE IF keyword \in {"maxLength", "maximum", "maxItems"}
            THEN <<" (maximum: ", ToString(params.limit), ")">>
            ELSE <<>>)

\* schema documents of the roadmap: the open plugin schemas and schemas that
\* ask for a number of properties
RoadmapSchemas ==
    OpenSchemas
    \cup {[type |-> "object", minProperties |-> k,
           properties |-> PluginSchema.properties] : k \in 0..(MaxLimit + 1)}

RoadmapSchemaFiles ==
    { [kind |-> "missing", message |-> "ENOENT: no such file or directory"],
      [kind |-> "malformed", message |-> "Unexpected token } in JSON"],
      [kind |-> "json", doc |-> BrokenSchema] }
    \cup {[kind |-> "json", doc |-> sch] : sch \in RoadmapSchemas}

RoadmapFiles ==
    { [kind |-> "missing", message |-> "ENOENT: no such file or directory"],
      [kind |-> "malformed", message |-> "Unexpected end of JSON input"] }
    \cup {[kind |-> "json", doc |-> d] : d \in DataRecords}

InitRoadmap ==
    /\ fsSchema \in RoadmapSchemaFiles
    /\ fsRoadmap \in RoadmapFiles
    /\ roadmap = Null
    /\ pc = "loadSchema"
    /\ fsDirReadable = FALSE
    /\ fsDir = <<>>
    /\ fsFiles = <<>>
    /\ schema = NoSchema
    /\ compiled = FALSE
    /\ validateErrors = <<>>
    /\ validateCalls = <<>>
    /\ filesRead = <<>>
    /\ pluginFiles = <<>>
    /\ idx = 0
    /\ totalErrors = 0
    /\ results = <<>>
    /\ printed = 0
    /\ console = <<>>
    /\ exitCode = 0
    /\ SingleIdle
    /\ DocIdle
    /\ LoaderIdle
    /\ ShellIdle

\* what main of validate-roadmap.js never touches
RoadmapFrame ==
    UNCHANGED <<fsSchema, fsRoadmap, fsDirReadable, fsDir, fsFiles, filesRead,
                pluginFiles, idx, totalErrors, results, printed, singleVars, docVars,
                loaderVars, shellVars>>

\* try { schema = JSON.parse(readFileSync(schemaPath)) } catch { exit(1) }
RoadmapLoadSchema ==
    /\ pc = "loadSchema"
    /\ \/ /\ fsSchema.kind = "json"
          /\ schema' = fsSchema.doc
          /\ console' = console \o
                <<Line("log", <<"[i] Schema loaded from ">> \o RoadmapSchemaName
                                 \o <<"\n">>)>>
          /\ pc' = "compile"
          /\ UNCHANGED exitCode
       \/ /\ fsSchema.kind # "json"
          /\ Exit(<<Line("error", <<"[x] Failed to load schema: ", fsSchema.message>>)>>, 1)
          /\ UNCHANGED schema
    /\ UNCHANGED <<compiled, roadmap, validateErrors, validateCalls>>
    /\ RoadmapFrame

\* try { validate = ajv.compile(schema) } catch { exit(1) }
RoadmapCompileSchema ==
    /\ pc = "compile"
    /\ \/ /\ ValidSchema(schema)
          /\ compiled' = TRUE
          /\ pc' = "loadRoadmap"
          /\ UNCHANGED <<console, exitCode>>
       \/ /\ ~ValidSchema(schema)
          /\ Exit(<<Line("error", <<"[x] Failed to compile schema: ",
                                    "schema is invalid">>)>>, 1)
          /\ UNCHANGED compiled
    /\ UNCHANGED <<schema, roadmap, validateErrors, validateCalls>>
    /\ RoadmapFrame

roadmapLoadFailureAsResult(message) ==
    <<Line("log", <<"[x] ">> \o RoadmapName),
      Line("log", <<"JSON Parse Error: ", message>>)>>

\* what the catch block of the roadmap load prints
roadmapLoadFailure(message) ==
    <<Line("error", <<"[x] Failed to load roadmap file: ", message>>)>>

\* try { roadmap = JSON.parse(readFileSync(roadmapPath)) } catch { exit(1) }
RoadmapLoad ==
    /\ pc = "loadRoadmap"
    /\ \/ /\ fsRoadmap.kind = "json"
          /\ roadmap' = fsRoadmap.doc
          /\ console' = console \o
                <<Line("log", <<"[#] Validating ">> \o RoadmapName \o <<"\n">>)>>
          /\ pc' = "validate"
          /\ UNCHANGED exitCode
       \/ /\ fsRoadmap.kind # "json"
          /\ Exit(roadmapLoadFailure(fsRoadmap.message), 1)
          /\ UNCHANGED roadmap
    /\ UNCHANGED <<schema, compiled, validateErrors, validateCalls>>
    /\ RoadmapFrame

roadmapFailureLinesHeaderOnly(errors) ==
    <<Line("error", <<"[x] Roadmap validation failed with ", ToString(Len(errors)),
                      " error(s):">>)>>

\* the header and one formatted line for each of validate.errors
roadmapFailureLines(errors) ==
    <<Line("error", <<"[x] Roadmap validation failed with ", ToString(Len(errors)),
                      " error(s):">>)>>
    \o [i \in 1..Len(errors) |-> Line("error", formatErrorRoadmap(errors[i]))]

\* const isValid = validate(roadmap); print the errors and exit(1), or
\* print the success line and exit(0)
RoadmapValidate ==
    /\ pc = "validate"
    /\ LET result == validate(schema, roadmap)
       IN  /\ validateErrors' = result.errors
           /\ validateCalls' = Append(validateCalls, roadmap)
           /\ IF ~result.valid
              THEN Exit(roadmapFailureLines(result.errors), 1)
              ELSE Exit(<<Line("log", <<"[ok] Roadmap validated successfully!">>)>>, 0)
    /\ UNCHANGED <<schema, compiled, roadmap>>
    /\ RoadmapFrame

NextRoadmap ==
    \/ RoadmapLoadSchema
    \/ RoadmapCompileSchema
    \/ RoadmapLoad
    \/ RoadmapValidate

SpecRoadmap == InitRoadmap /\ [][NextRoadmap]_vars

-----------------------------------------------------------------------------
(* scripts/generate-plugin-docs.js                                         *)
(* The markdown is the sequence of its lines, each line a sequence of      *)
(* tokens; the empty line is <<>>.  A fenced example of the fixed text is  *)
(* written as one line.  A schema node is the record of the validator's    *)
(* schemas, with the further keywords the generator reads: description,    *)
(* examples, default, items; a type written as a JSON array is the field   *)
(* typeList, since a string and a sequence cannot share a field.  The     *)
(* backquote of the markdown is written ' and the emoji of the Required    *)
(* line [ok] and [x].                                                      *)

\* truthiness of a number: 0 is falsy
TruthyNum(n) == n # 0

\* parts joined by sep, each part a sequence of tokens
RECURSIVE JoinParts(_, _)
JoinParts(parts, sep) ==
    IF parts = <<>> THEN <<>>
    ELSE IF Len(parts) = 1 THEN parts[1]
    ELSE parts[1] \o <<sep>> \o JoinParts(Tail(parts), sep)

\* JSON.stringify of a value
JSONStringify(v) ==
    IF v.t = "string" THEN <<"\"", v.s, "\"">>
    ELSE IF v.t = "number" THEN <<ToString(v.n)>>
    ELSE IF v.t = "boolean" THEN <<IF v.b THEN "true" ELSE "false">>
    ELSE <<"null">>

\* the type as written, the members of a type array joined by " | ", or
\* undefined where the node has no type
getTypeDescription(prop) ==
    IF Has(prop, "typeList") THEN Join(prop.typeList, " | ")
    ELSE IF Has(prop, "type") THEN <<prop.type>>
    ELSE <<"undefined">>

\* prop.type === "object" and prop.type === "array"
IsObjectType(prop) == Has(prop, "type") /\ prop.type = "object"
IsArrayType(prop) == Has(prop, "type") /\ prop.type = "array"

formatExamples(examples) ==
    JoinParts([i \in 1..Len(examples) |->
                  IF examples[i].t = "string"
                  THEN <<"'", examples[i].s, "'">>
                  ELSE <<"'">> \o JSONStringify(examples[i]) \o <<"'">>], ", ")

\* the entries of a required list
Includes(list, name) == \E i \in 1..Len(list) : list[i] = name

\* node.required || []
RequiredOf(node) == IF Has(node, "required") THEN node.required ELSE <<>>

generatePropertyDocumentation(propName, prop, isRequired) ==
       << <<"#### '", propName, "'">>, <<>>,
          <<"**Type:** '">> \o getTypeDescription(prop) \o <<"'">>,
          <<"**Required:** ", IF isRequired THEN "[ok] Yes" ELSE "[x] No">>, <<>> >>
    \o (IF Has(prop, "description") /\ Truthy(prop.description)
        THEN << <<prop.description>>, <<>> >>
        ELSE <<>>)
    \o (IF Has(prop, "enum")
        THEN << <<"**Allowed values:**">> >>
             \o [i \in 1..Len(prop.enum) |-> <<"- '", prop.enum[i], "'">>]
             \o << <<>> >>
        ELSE <<>>)
    \o (IF Has(prop, "pattern") /\ Truthy(prop.pattern)
        THEN << <<"**Pattern:** '", prop.pattern, "'">>, <<>> >>
        ELSE <<>>)
    \o (LET min == Has(prop, "minLength") /\ TruthyNum(prop.minLength)
            max == Has(prop, "maxLength") /\ TruthyNum(prop.maxLength)
            constraints ==
                (IF min THEN << <<"min: ", ToString(prop.minLength)>> >> ELSE <<>>)
                \o (IF max THEN << <<"max: ", ToString(prop.maxLength)>> >> ELSE <<>>)
        IN  IF min \/ max
            THEN << <<"**String length:** ">> \o JoinParts(constraints, ", "), <<>> >>
            ELSE <<>>)
    \o (LET min == Has(prop, "minimum") /\ TruthyNum(prop.minimum)
            max == Has(prop, "maximum") /\ TruthyNum(prop.maximum)
            constraints ==
                (IF Has(prop, "minimum")
                 THEN << <<"min: ", ToString(prop.minimum)>> >> ELSE <<>>)
                \o (IF Has(prop, "maximum")
                    THEN << <<"max: ", ToString(prop.maximum)>> >> ELSE <<>>)
        IN  IF min \/ max
            THEN << <<"**Range:** ">> \o JoinParts(constraints, ", "), <<>> >>
            ELSE <<>>)
    \o (IF Has(prop, "examples") /\ Len(prop.examples) > 0
        THEN << <<"**Examples:**">>, formatExamples(prop.examples), <<>> >>
        ELSE <<>>)
    \o (IF Has(prop, "default")
        THEN << <<"**Default:** '">> \o JSONStringify(prop.default) \o <<"'">>, <<>> >>
        ELSE <<>>)

\* every Required indicator computed against the root's required list
propertiesDocumentationRootRequired(node) ==
    Concat([i \in 1..Len(node.properties) |->
               generatePropertyDocumentation(
                   node.properties[i].name, node.properties[i].node,
                   Includes(RequiredOf(docSchema), node.properties[i].name))])

propertiesDocumentationReversed(node) ==
    Concat([i \in 1..Len(node.properties) |->
               generatePropertyDocumentation(
                   node.properties[Len(node.properties) + 1 - i].name,
                   node.properties[Len(node.properties) + 1 - i].node,
                   Includes(RequiredOf(node),
                            node.properties[Len(node.properties) + 1 - i].name))])

\* the documentation of every entry of Object.entries(node.properties), in
\* its order
propertiesDocumentation(node) ==
    Concat([i \in 1..Len(node.properties) |->
               generatePropertyDocumentation(
                   node.properties[i].name, node.properties[i].node,
                   Includes(RequiredOf(node), node.properties[i].name))])

\* parentPath ? ${parentPath}.${propName} : propName
fullPath(propName, parentPath) ==
    IF parentPath # <<>> THEN parentPath \o <<".", propName>> ELSE <<propName>>

\* generateNestedObjectDocumentation(propName, prop, parentPath = "")
generateNestedObjectDocumentation(propName, prop, parentPath) ==
    IF ~IsObjectType(prop) THEN <<>>
    ELSE << <<"### '">> \o fullPath(propName, parentPath) \o <<"'">>, <<>> >>
         \o (IF Has(prop, "description") /\ Truthy(prop.description)
             THEN << <<prop.description>>, <<>> >>
             ELSE <<>>)
         \o (IF Has(prop, "properties") THEN propertiesDocumentation(prop) ELSE <<>>)
         \o (IF Has(prop, "items") /\ Has(prop.items, "properties")
             THEN << <<"#### Item Properties">>, <<>> >>
                  \o propertiesDocumentation(prop.items)
             ELSE <<>>)

\* the fixed text in front of the schema's description
TitleLines ==
    << <<"# Plugin Schema Documentation">>, <<>>,
       <<"> **Auto-generated documentation from ['schema.json'](./schema.json)**">>,
       <<"> ">>,
       <<"> This documentation is automatically generated and should not be manually edited.">>,
       <<"> Changes to plugin schema should be made in 'schema.json' and documentation should be regenerated using:">>,
       <<"> (fence) bash">>,
       <<"> npm run generate:plugin-docs">>,
       <<"> (fence)">>, <<>>,
       <<"## Overview">>, <<>> >>

RequiredFieldsHeading == <<"## Required Fields">>
RequiredFieldsIntro ==
    <<"The following fields are mandatory for every plugin definition:">>
FieldReferenceHeading == <<"## Field Reference">>

\* the fixed sections after the field reference
FixedSections ==
    << <<>>, <<>>,
       <<"## Examples">>, <<>>,
       <<"### Minimal Plugin (with only required fields)">>, <<>>,
       <<"(fence) json: the minimal plugin (fence)">>, <<>>,
       <<"### Complete Plugin Example">>, <<>>,
       <<"(fence) json: the complete plugin (fence)">>, <<>>,
       <<"## Validation">>, <<>>,
       <<"All plugin files are automatically validated against this schema. Validation is performed:">>,
       <<>>,
       <<"- On every PR via GitHub Actions workflow">>,
       <<"- Pre-commit using the validation script">>,
       <<"- During local development">>, <<>>,
       <<"### Running Validation Locally">>, <<>>,
       <<"(fence) bash: npm run validate:plugins (fence)">>, <<>>,
       <<"### Validation Errors">>, <<>>,
       <<"If you encounter validation errors, ensure:">>, <<>>,
       <<"1. All required fields are present">>,
       <<"2. Values match the specified types and constraints">>,
       <<"3. Enums only contain allowed values">>,
       <<"4. String lengths are within limits">>,
       <<"5. IDs and slugs follow the kebab-case pattern">>,
       <<"6. Semantic versions follow MAJOR.MINOR.PATCH format">>, <<>>,
       <<"## Categories">>, <<>>,
       <<"Plugins must belong to one of these categories:">>, <<>>,
       <<"- '", "finance", "' - Financial and banking integrations">>,
       <<"- '", "analytics", "' - Data analytics and reporting">>,
       <<"- '", "automation", "' - Workflow automation">>,
       <<"- '", "integration", "' - Third-party integrations">>,
       <<"- '", "data", "' - Data management and processing">>,
       <<"- '", "communication", "' - Communication tools">>,
       <<"- '", "productivity", "' - Productivity and utilities">>,
       <<"- '", "other", "' - Other categories">>, <<>>,
       <<"## Status Values">>, <<>>,
       <<"- '", "active", "' - Fully functional and supported">>,
       <<"- '", "coming-soon", "' - In development, not yet available">>,
       <<"- '", "beta", "' - Available but still undergoing testing">>,
       <<"- '", "deprecated", "' - No longer maintained, users should migrate">>,
       <<"- '", "archived", "' - Permanently retired">>, <<>>,
       <<"---">>, <<>> >>

\* new Date().toISOString() at time now, a number of seconds below ten
toISOString(now) == <<"2025-01-01T00:00:0", ToString(now), ".000Z">>

LastUpdatedTwice(now) ==
    << <<"**Generated:** ">> \o toISOString(now), <<>>,
       <<"**Last updated:** ">> \o toISOString(now) >>

\* the line that carries the time of the rendering
LastUpdated(now) == << <<"**Last updated:** ">> \o toISOString(now) >>

requiredListReversed(required) ==
    [i \in 1..Len(required) |-> <<"- '", required[Len(required) + 1 - i], "'">>]

\* required.forEach(field => markdown += the bullet of field)
requiredList(required) ==
    [i \in 1..Len(required) |-> <<"- '", required[i], "'">>]

topLevelDocumentationPropertyOnly(propName, prop, required) ==
    generatePropertyDocumentation(propName, prop, Includes(required, propName))

\* what the loop over the top-level properties appends for one of them
topLevelDocumentation(propName, prop, required) ==
    generatePropertyDocumentation(propName, prop, Includes(required, propName))
    \o (IF IsObjectType(prop) /\ Has(prop, "properties")
        THEN generateNestedObjectDocumentation(propName, prop, <<>>)
        ELSE <<>>)
    \o (IF IsArrayType(prop) /\ Has(prop, "items") /\ Has(prop.items, "properties")
        THEN << <<"### '", propName, "[]' - Array Items">>, <<>> >>
             \o (IF Has(prop.items, "description") /\ Truthy(prop.items.description)
                 THEN << <<prop.items.description>>, <<>> >>
                 ELSE <<>>)
             \o propertiesDocumentation(prop.items)
        ELSE <<>>)

\* Object.entries(schema.properties) throws where schema has no properties
generateMarkdownThrows(docschema) == ~Has(docschema, "properties")

\* generateMarkdown(schema) at time now, for a schema it does not throw on
generateMarkdown(docschema, now) ==
    LET required == RequiredOf(docschema)
    IN  TitleLines
        \o << (IF Has(docschema, "description")
               THEN <<docschema.description>> ELSE <<"undefined">>), <<>>,
              RequiredFieldsHeading, <<>>,
              RequiredFieldsIntro, <<>> >>
        \o requiredList(required)
        \o << <<>>, <<>>, FieldReferenceHeading, <<>> >>
        \o Concat([i \in 1..Len(docschema.properties) |->
                      topLevelDocumentation(docschema.properties[i].name,
                                            docschema.properties[i].node, required)])
        \o FixedSections
        \o LastUpdated(now)

\* the schemas the generator is run on: each top-level property present or
\* not, in one of its variants, in this order or the reverse one
DocIdProps ==
    {[type |-> "string", description |-> "Unique plugin identifier",
      pattern |-> KebabPattern, examples |-> <<Str("my-plugin"), Num(1)>>],
     [type |-> "string", minLength |-> 0],
     [type |-> "string", description |-> "Identifier with every keyword",
      enum |-> <<"one", "two">>, pattern |-> KebabPattern,
      minLength |-> 1, maxLength |-> MaxLimit,
      minimum |-> 1, maximum |-> MaxLimit,
      examples |-> <<Str("one")>>, default |-> Str("two")]}
    \cup {[type |-> "string", minLength |-> a, maxLength |-> b] :
             a \in {0, 1}, b \in {0, MaxLimit}}

DocDescriptionProps ==
    {[typeList |-> <<"string", "null">>, description |-> "Longer description"]}

DocCategoryProps ==
    {[type |-> "string", enum |-> <<"finance", "analytics", "other">>,
      default |-> Str("other")]}

DocPriceProps ==
    {[type |-> "number"],
     [type |-> "number", minimum |-> 0],
     [type |-> "number", minimum |-> 0, maximum |-> MaxLimit]}

DocFreeProp ==
    [type |-> "object", description |-> "Free tier",
     required |-> <<"available">>,
     properties |-> <<[name |-> "available", node |-> [type |-> "boolean"]]>>]

DocTiersProp ==
    [type |-> "array", description |-> "Pricing tiers",
     items |-> [type |-> "object", required |-> <<"name">>,
                properties |-> <<[name |-> "name", node |-> [type |-> "string"]]>>]]

DocPricingProps ==
    {[type |-> "object", description |-> "Pricing information"]}
    \cup {[type |-> "object", description |-> "Pricing information",
           required |-> <<"price">>,
           properties |-> <<[name |-> "free", node |-> DocFreeProp],
                            [name |-> "price", node |-> pn]>>] : pn \in DocPriceProps}
    \cup {[type |-> "object",
           properties |-> <<[name |-> "tiers", node |-> DocTiersProp],
                            [name |-> "id", node |-> [type |-> "string"]]>>]}

DocQuickstartProps ==
    {[type |-> "array", items |-> [type |-> "string"]],
     [type |-> "array", description |-> "Steps to get started",
      items |-> [type |-> "object", description |-> "One step",
                 required |-> <<"step">>,
                 properties |-> <<[name |-> "step",
                                   node |-> [type |-> "integer", minimum |-> 1]],
                                  [name |-> "description",
                                   node |-> [type |-> "string"]]>>]]}

\* ghost is a required name that no schema declares as a property
DocRequiredLists == { <<>>, <<"id", "category">>, <<"category", "ghost", "id">> }

\* the entry of name when node is one, no entry when it is Absent
EntryOf(name, node) ==
    IF node = Absent THEN <<>> ELSE <<[name |-> name, node |-> node]>>

Reverse(seq) == [i \in 1..Len(seq) |-> seq[Len(seq) + 1 - i]]

DocPropertyLists ==
    {IF backwards THEN Reverse(entries) ELSE entries :
        backwards \in BOOLEAN,
        entries \in {EntryOf("id", i) \o EntryOf("description", d)
                     \o EntryOf("category", c) \o EntryOf("pricing", p)
                     \o EntryOf("quickstart", q) :
                        i \in DocIdProps \cup {Absent},
                        d \in DocDescriptionProps \cup {Absent},
                        c \in DocCategoryProps \cup {Absent},
                        p \in DocPricingProps \cup {Absent},
                        q \in DocQuickstartProps \cup {Absent}}}

DocSchemas ==
    {[type |-> "object", description |-> "Schema for plugin definitions",
      required |-> r, properties |-> ps] :
        r \in DocRequiredLists, ps \in DocPropertyLists}
    \cup {[type |-> "object", description |-> "Schema for plugin definitions",
           properties |-> ps] : ps \in DocPropertyLists}
    \cup {[type |-> "object", required |-> <<"id">>]}

InitDocs ==
    /\ docSchema \in DocSchemas
    /\ clock = 0
    /\ markdown = <<>>
    /\ previous = <<>>
    /\ renders = 0
    /\ thrown = FALSE
    /\ fsDocs = [kind |-> "missing"]
    /\ fsDocsWrite = "ok"
    /\ BatchIdle
    /\ SingleIdle
    /\ RoadmapIdle
    /\ LoaderIdle
    /\ ShellIdle

\* const markdown = generateMarkdown(schema), at a time after the last one
Render ==
    /\ renders < MaxRenders
    /\ renders' = renders + 1
    /\ \E now \in {clock + 1, clock + 2} :
          /\ clock' = now
          /\ IF generateMarkdownThrows(docSchema)
             THEN /\ thrown' = TRUE
                  /\ UNCHANGED <<markdown, previous>>
             ELSE /\ thrown' = FALSE
                  /\ markdown' = generateMarkdown(docSchema, now)
                  /\ previous' = markdown
    /\ UNCHANGED <<docSchema, fsDocs, fsDocsWrite>>
    /\ UNCHANGED <<batchVars, singleVars, roadmapVars, loaderVars, shellVars>>

SpecDocs == InitDocs /\ [][Render]_vars

-----------------------------------------------------------------------------
(* The body of scripts/generate-plugin-docs.js: one try block that reads   *)
(* and parses the schema, renders it and writes SCHEMA.md, and a catch     *)
(* that reports and exits with status 1.                                   *)

\* the output file as a run finds it: absent, or an earlier documentation
OldDocs == [kind |-> "text", lines |-> << <<"# Plugin Schema Documentation">>,
                                          <<"(an earlier rendering)">> >>]

DocsFiles == {[kind |-> "missing"], OldDocs}

\* writeFileSync succeeds, is refused when it opens the file, or fails after
\* it has opened (and so truncated) the file and written some of the text
WriteOutcomes == {"ok", "refused", "partial"}

\* the schema file of a run: the schemas of one required list in the
\* properties' own order, and the schema without properties
DocsSchemaFiles ==
    { [kind |-> "missing", message |-> "ENOENT: no such file or directory"],
      [kind |-> "malformed", message |-> "Unexpected token } in JSON"] }
    \cup {[kind |-> "json", doc |-> sch] :
             sch \in {d \in DocSchemas :
                         /\ RequiredOf(d) \in {<<"category", "ghost", "id">>, <<"id">>}
                         /\ Has(d, "properties") =>
                               /\ d.properties # <<>>
                               /\ d.properties[1].name \in {"id", "category"}}}

InitDocsMain ==
    /\ fsSchema \in DocsSchemaFiles
    /\ fsDocs \in DocsFiles
    /\ fsDocsWrite \in WriteOutcomes
    /\ pc = "docsRead"
    /\ docSchema = NoSchema
    /\ clock = 0
    /\ markdown = <<>>
    /\ previous = <<>>
    /\ renders = 0
    /\ thrown = FALSE
    /\ fsDirReadable = FALSE
    /\ fsDir = <<>>
    /\ fsFiles = <<>>
    /\ schema = NoSchema
    /\ compiled = FALSE
    /\ validateErrors = <<>>
    /\ validateCalls = <<>>
    /\ filesRead = <<>>
    /\ pluginFiles = <<>>
    /\ idx = 0
    /\ totalErrors = 0
    /\ results = <<>>
    /\ printed = 0
    /\ console = <<>>
    /\ exitCode = 0
    /\ SingleIdle
    /\ RoadmapIdle
    /\ LoaderIdle
    /\ ShellIdle

\* what the script never touches
DocsFrame ==
    UNCHANGED <<fsSchema, fsDirReadable, fsDir, fsFiles, schema, compiled,
                validateErrors, validateCalls, filesRead, pluginFiles, idx,
                totalErrors, results, printed, singleVars, roadmapVars,
                loaderVars, shellVars,
                fsDocsWrite, previous>>

\* catch (error) { console.error(..., error.message); process.exit(1) }
DocsCatch(message) ==
    Exit(<<Line("error", <<"[x] Error generating documentation:", " ", message>>)>>, 1)

\* const schema = JSON.parse(fs.readFileSync(schemaPath, "utf-8"))
DocsRead ==
    /\ pc = "docsRead"
    /\ \/ /\ fsSchema.kind = "json"
          /\ docSchema' = fsSchema.doc
          /\ pc' = "docsRender"
          /\ UNCHANGED <<console, exitCode>>
       \/ /\ fsSchema.kind # "json"
          /\ DocsCatch(fsSchema.message)
          /\ UNCHANGED docSchema
    /\ UNCHANGED <<clock, markdown, renders, thrown, fsDocs>>
    /\ DocsFrame

\* const markdown = generateMarkdown(schema)
DocsRender ==
    /\ pc = "docsRender"
    /\ renders' = renders + 1
    /\ \E now \in {clock + 1, clock + 2} :
          /\ clock' = now
          /\ IF generateMarkdownThrows(docSchema)
             THEN /\ thrown' = TRUE
                  /\ DocsCatch("Cannot convert undefined or null to object")
                  /\ UNCHANGED markdown
             ELSE /\ thrown' = FALSE
                  /\ markdown' = generateMarkdown(docSchema, now)
                  /\ pc' = "docsWrite"
                  /\ UNCHANGED <<console, exitCode>>
    /\ UNCHANGED <<docSchema, fsDocs>>
    /\ DocsFrame

\* a write that stops after the first line and still reports success
docsWrittenFirstLine(outcome, old, text) ==
    IF outcome = "ok" THEN {[kind |-> "text", lines |-> SubSeq(text, 1, 1)]}
    ELSE {old}

\* the output file after writeFileSync(docsPath, text) with the given outcome
docsWritten(outcome, old, text) ==
    IF outcome = "ok" THEN {[kind |-> "text", lines |-> text]}
    ELSE IF outcome = "refused" THEN {old}
    ELSE {[kind |-> "text", lines |-> SubSeq(text, 1, k)] : k \in {0, 1}}

\* fs.writeFileSync(docsPath, markdown); the two console.log; process.exit(0)
DocsWrite ==
    /\ pc = "docsWrite"
    /\ fsDocs' \in docsWritten(fsDocsWrite, fsDocs, markdown)
    /\ IF fsDocsWrite = "ok"
       THEN Exit(<<Line("log", <<"[ok] Plugin documentation generated successfully!">>),
                   Line("log", <<"[#] Output: ">> \o DocName)>>, 0)
       ELSE DocsCatch(IF fsDocsWrite = "refused"
                      THEN "EACCES: permission denied"
                      ELSE "ENOSPC: no space left on device")
    /\ UNCHANGED <<docSchema, clock, markdown, renders, thrown>>
    /\ DocsFrame

NextDocsMain ==
    \/ DocsRead
    \/ DocsRender
    \/ DocsWrite

SpecDocsMain == InitDocsMain /\ [][NextDocsMain]_vars

-----------------------------------------------------------------------------
(* loadAllPlugins of src/utils/plugins.ts (loadAllIntelligencePacks of     *)
(* src/utils/intelligence-packs.ts is the same function over another       *)
(* directory).                                                             *)

GlobDir == "../data/plugins/"

\* a plugin record as the loader sees it: the four fields it tests
PluginRecord(id, slug, name, status) ==
    [id |-> id, slug |-> slug, name |-> name, status |-> status]

\* records with every field, records with an absent or empty field, and a
\* file that holds null
LoaderRecords ==
    {PluginRecord("p", "p", n, s) : n \in {"alpha", "beta", "Beta"},
                                    s \in {"active", "beta"}}
    \cup { [slug |-> "p", name |-> "alpha", status |-> "active"],
           PluginRecord("p", "", "alpha", "active"),
           PluginRecord("p", "p", "", "active"),
           [id |-> "p", slug |-> "p", name |-> "alpha"],
           Null }

\* import.meta.glob("../data/plugins/*.json", { eager: true }): one module
\* for every entry of the directory that ends in .json
glob(listing, contents) ==
    LET matched == SelectSeq(listing, LAMBDA f : EndsWith(f, ".json"))
    IN  [i \in 1..Len(matched) |->
            [filepath |-> <<GlobDir>> \o matched[i],
             default |-> contents[matched[i]]]]

loaderSkipsNothing(filepath) == FALSE

\* filepath.includes("schema.json")
loaderSkips(filepath) ==
    \E i \in 1..(Len(filepath) - 1) : SubSeq(filepath, i, i + 1) = SchemaName

\* plugin && plugin.id && plugin.slug && plugin.name && plugin.status
hasRequiredFields(plugin) ==
    /\ plugin # Null
    /\ \A field \in {"id", "slug", "name", "status"} :
          Has(plugin, field) /\ Truthy(plugin[field])

\* the order of String.prototype.localeCompare on the names of the pool:
\* letters in alphabet order, lower case before upper case of the same word
Collation == <<"", "alpha", "beta", "Beta">>

localeCompare(a, b) ==
    LET rank(x) == CHOOSE i \in 1..Len(Collation) : Collation[i] = x
    IN  IF rank(a) < rank(b) THEN -1 ELSE IF rank(a) > rank(b) THEN 1 ELSE 0

comparePluginsNameOnly(a, b) == localeCompare(a.name, b.name)

\* the comparator handed to plugins.sort
comparePlugins(a, b) ==
    IF a.status = "active" /\ b.status # "active" THEN -1
    ELSE IF a.status # "active" /\ b.status = "active" THEN 1
    ELSE localeCompare(a.name, b.name)

\* Array.prototype.sort with comparePlugins: a stable sort
RECURSIVE insertSorted(_, _)
insertSorted(sorted, x) ==
    IF sorted = <<>> THEN <<x>>
    ELSE IF comparePlugins(Head(sorted), x) <= 0
         THEN <<Head(sorted)>> \o insertSorted(Tail(sorted), x)
         ELSE <<x>> \o sorted

RECURSIVE sortPlugins(_)
sortPlugins(list) ==
    IF list = <<>> THEN <<>>
    ELSE insertSorted(sortPlugins(SubSeq(list, 1, Len(list) - 1)), list[Len(list)])

\* the modules the loop does not skip
admittedModules(modules) ==
    SelectSeq(modules, LAMBDA m : ~loaderSkips(m.filepath))

InitLoader ==
    /\ fsSchema \in {[kind |-> "missing"], [kind |-> "json", doc |-> PluginSchema]}
    /\ fsDirReadable = TRUE
    /\ \E n \in 0..MaxFiles, lookalike \in BOOLEAN :
          /\ lookalike => n > 0
          /\ \E p \in {0, n}, md \in BOOLEAN :
                /\ lookalike => md
                /\ fsDir = Listing(n, p, fsSchema.kind # "missing", md, lookalike)
          /\ \E contents \in [RecordNames(n, lookalike) -> LoaderRecords] :
                fsFiles = [f \in DOMAIN contents \cup
                                 (IF fsSchema.kind = "missing" THEN {} ELSE {SchemaName})
                           |-> IF f \in DOMAIN contents THEN contents[f]
                               ELSE PluginSchema]
    /\ pc = "loadAllPlugins"
    /\ schema = NoSchema
    /\ compiled = FALSE
    /\ validateErrors = <<>>
    /\ validateCalls = <<>>
    /\ filesRead = <<>>
    /\ pluginFiles = <<>>
    /\ idx = 0
    /\ totalErrors = 0
    /\ results = <<>>
    /\ printed = 0
    /\ console = <<>>
    /\ exitCode = 0
    /\ SingleIdle
    /\ RoadmapIdle
    /\ DocIdle
    /\ LoaderIdle
    /\ ShellIdle

\* one call of loadAllPlugins()
LoadAllPlugins ==
    /\ pc = "loadAllPlugins"
    /\ pluginModules' = glob(fsDir, fsFiles)
    /\ LET admitted == admittedModules(pluginModules')
           kept == SelectSeq(admitted, LAMBDA m : hasRequiredFields(m.default))
           dropped == SelectSeq(admitted, LAMBDA m : ~hasRequiredFields(m.default))
       IN  /\ console' = console \o
                 [i \in 1..Len(dropped) |->
                     Line("warn", <<"Plugin at ">> \o dropped[i].filepath
                                  \o <<" is missing required fields">>)]
           /\ plugins' = sortPlugins([i \in 1..Len(kept) |-> kept[i].default])
    /\ pc' = "returned"
    /\ UNCHANGED <<fsSchema, fsDirReadable, fsDir, fsFiles, schema, compiled,
                   validateErrors, validateCalls, filesRead, pluginFiles, idx,
                   totalErrors, results, printed, exitCode>>
    /\ UNCHANGED <<singleVars, roadmapVars, docVars, shellVars>>

SpecLoader == InitLoader /\ [][LoadAllPlugins]_vars

-----------------------------------------------------------------------------
(* The deployment validation script (a bash script under set -e).  A run   *)
(* is the list of what its checks find; of its output only the lines of    *)
(* the checks and of the summary are kept.                                 *)

\* the exit status of ((X++)) where X held old: 1 when the value of the
\* expression, which is old, is 0
arithStatus(old) == IF old = 0 THEN 1 ELSE 0

\* print_pass, print_fail and print_warning on the state st of the script.
\* Under set -e a failing (( )) ends the script where the shell applies
\* set -e to (( )), and a function whose last command fails ends it where
\* the shell does not.
printCheck(st, outcome) ==
    LET mark == IF outcome = "pass" THEN "  [ok] PASS"
                ELSE IF outcome = "fail" THEN "  [x] FAIL" ELSE "  [!]  WARN"
        echoed == [st EXCEPT !.out = Append(@, Line("log", <<mark>>)),
                             !.ran = @ + 1]
        counted == IF outcome = "pass" THEN [echoed EXCEPT !.passed = @ + 1]
                   ELSE IF outcome = "fail" THEN [echoed EXCEPT !.failed = @ + 1]
                   ELSE echoed
        first == IF outcome = "pass" THEN arithStatus(st.passed)
                 ELSE IF outcome = "fail" THEN arithStatus(st.failed) ELSE 0
    IN  IF arithErrexit /\ first = 1
        THEN [counted EXCEPT !.dead = TRUE]
        ELSE [counted EXCEPT !.total = @ + 1,
                             !.dead = arithStatus(st.total) = 1]

\* the checks of the script, one after the other, while the script lives
RECURSIVE runChecks(_, _)
runChecks(st, list) ==
    IF st.dead \/ list = <<>> THEN st
    ELSE runChecks(printCheck(st, Head(list)), Tail(list))

\* print_section "Validation Summary" and the results below it
ValidationSummary(st) ==
    << Line("log", <<"[?] Validation Summary">>),
       Line("log", <<"[#] Results:">>),
       Line("log", <<"  Total checks: ", ToString(st.total)>>),
       Line("log", <<"  Passed: ", ToString(st.passed)>>),
       Line("log", <<"  Failed: ", ToString(st.failed)>>),
       Line("log", IF st.failed = 0
                   THEN <<"[ok] All critical checks passed!">>
                   ELSE <<"[x] ", ToString(st.failed), " checks failed">>) >>

\* the first check is of a file's existence and passes or fails
InitShell ==
    /\ \E n \in 1..MaxChecks :
          /\ outcomes \in [1..n -> {"pass", "fail", "warn"}]
          /\ outcomes[1] \in {"pass", "fail"}
    /\ arithErrexit \in BOOLEAN
    /\ CHECKS_TOTAL = 0
    /\ CHECKS_PASSED = 0
    /\ CHECKS_FAILED = 0
    /\ pc = "script"
    /\ fsSchema = [kind |-> "missing"]
    /\ fsDirReadable = FALSE
    /\ fsDir = <<>>
    /\ fsFiles = <<>>
    /\ schema = NoSchema
    /\ compiled = FALSE
    /\ validateErrors = <<>>
    /\ validateCalls = <<>>
    /\ filesRead = <<>>
    /\ pluginFiles = <<>>
    /\ idx = 0
    /\ totalErrors = 0
    /\ results = <<>>
    /\ printed = 0
    /\ console = <<>>
    /\ exitCode = 0
    /\ SingleIdle
    /\ RoadmapIdle
    /\ DocIdle
    /\ LoaderIdle

\* one run of the script, from its first line to the exit
RunScript ==
    /\ pc = "script"
    /\ LET start == [passed |-> CHECKS_PASSED, failed |-> CHECKS_FAILED,
                     total |-> CHECKS_TOTAL, out |-> <<>>, ran |-> 0,
                     dead |-> FALSE]
           end == runChecks(start, outcomes)
       IN  /\ CHECKS_PASSED' = end.passed
           /\ CHECKS_FAILED' = end.failed
           /\ CHECKS_TOTAL' = end.total
           /\ idx' = end.ran
           /\ IF end.dead
              THEN Exit(end.out, 1)
              ELSE Exit(end.out \o ValidationSummary(end),
                        IF end.failed = 0 THEN 0 ELSE 1)
    /\ UNCHANGED <<fsSchema, fsDirReadable, fsDir, fsFiles, schema, compiled,
                   validateErrors, validateCalls, filesRead, pluginFiles,
                   totalErrors, results, printed, outcomes, arithErrexit>>
    /\ UNCHANGED <<singleVars, roadmapVars, docVars, loaderVars>>

SpecShell == InitShell /\ [][RunScript]_vars

-----------------------------------------------------------------------------
(* What a run starts from, and what it has printed.                        *)

\* the run cannot get to the records: schema file missing or unparsable,
\* schema rejected by ajv.compile, or directory listing refused
ConfigFailure ==
    \/ fsSchema.kind # "json"
    \/ fsSchema.doc = BrokenSchema
    \/ ~fsDirReadable

\* the record files of the directory, in listing order
EnumeratedFiles == SelectSeq(fsDir, LAMBDA f : f \in DOMAIN fsFiles)

Unparsable(f) == fsFiles[f].kind # "json"

\* the record in file f satisfies the schema of the schema file
FileConforms(f) ==
    /\ fsFiles[f].kind = "json"
    /\ collectErrors(fsSchema.doc, fsFiles[f].doc, <<>>) = <<>>

\* the run went through every record (or found none)
RecordsDone ==
    \/ pc \in {"print", "summary"}
    \/ pc = "exited" /\ ~ConfigFailure

IsRecordLine(line) == line.text[1] \in {"[ok] ", "[x] "}
RecordLines == SelectSeq(console, IsRecordLine)
SummaryHeader == <<"[#] Validation Summary:">>
SummaryPrinted == \E k \in 1..Len(console) : console[k].text = SummaryHeader

\* the summary line that starts with prefix shows value, and there is one
SummaryShows(prefix, value) ==
    /\ \E k \in 1..Len(console) : console[k].text[1] = prefix
    /\ \A k \in 1..Len(console) :
          console[k].text[1] = prefix => console[k].text[2] = ToString(value)

RECURSIVE SumErrors(_)
SumErrors(rs) == IF rs = <<>> THEN 0 ELSE Len(Head(rs).errors) + SumErrors(Tail(rs))

-----------------------------------------------------------------------------
(* Claims about the batch run.                                             *)

\* C1: the command exits 0 when every record file passed, exits 1 when at
\* least one record file failed (unparsable or violating the schema), and
\* exits 1 when the schema file or the directory cannot be read.
C1_ExitCode ==
    pc = "exited" =>
        /\ (fsSchema.kind # "json" \/ ~fsDirReadable) => exitCode = 1
        /\ (~ConfigFailure /\ \E f \in DOMAIN fsFiles : ~FileConforms(f))
              => exitCode = 1
        /\ (~ConfigFailure /\ \A f \in DOMAIN fsFiles : FileConforms(f))
              => exitCode = 0

C1_Witness ==
    /\ pc = "exited"
    /\ exitCode = 1
    /\ ~ConfigFailure
    /\ \E f, g \in DOMAIN fsFiles : FileConforms(f) /\ ~FileConforms(g)

\* C2: every enumerated record file is read exactly once and yields exactly
\* one result entry, in enumeration order, whatever happened to earlier files.
C2_EveryFileOnce ==
    /\ pc = "forEach" => Len(results) = idx /\ Len(filesRead) = idx
    /\ RecordsDone =>
          /\ Len(pluginFiles) = Cardinality(DOMAIN fsFiles)
          /\ filesRead = [i \in 1..Len(pluginFiles) |-> Basename(pluginFiles[i])]
          /\ Len(results) = Len(pluginFiles)
          /\ \A i \in 1..Len(results) : results[i].file = Basename(pluginFiles[i])
          /\ \A f \in DOMAIN fsFiles :
                Cardinality({i \in 1..Len(results) : results[i].file = f}) = 1

C2_Witness ==
    /\ pc = "summary"
    /\ Len(results) >= 3
    /\ results[1].status = "error"
    /\ Unparsable(results[2].file)
    /\ results[3].status = "success"

\* C3: an unparsable record file is failed with exactly one parse error and
\* is never handed to the schema validator; every other record gets the
\* result its own content determines; and valid, unparsable, valid is
\* summarised as Passed: 2, Failed: 1.
C3_BatchIsolation ==
    /\ RecordsDone =>
          \A i \in 1..Len(results) :
             LET r == results[i]
                 called == \E j \in 1..Len(validateCalls) : validateCalls[j] = r.file
             IN  IF Unparsable(r.file)
                 THEN /\ r.status = "error"
                      /\ Len(r.errors) = 1
                      /\ r.errors[1][1] = "JSON Parse Error: "
                      /\ ~called
                 ELSE /\ called
                      /\ r.errors = validateAgainstSchema(fsFiles[r.file].doc, fsSchema.doc)
                      /\ r.status = "success" <=> FileConforms(r.file)
    /\ (/\ pc = "exited"
        /\ ~ConfigFailure
        /\ Len(EnumeratedFiles) = 3
        /\ FileConforms(EnumeratedFiles[1])
        /\ Unparsable(EnumeratedFiles[2])
        /\ FileConforms(EnumeratedFiles[3]))
       => SummaryShows("  [ok] Passed: ", 2) /\ SummaryShows("  [x] Failed: ", 1)

C3_Witness ==
    /\ pc = "exited"
    /\ Len(results) = 3
    /\ results[1].status = "success"
    /\ Unparsable(results[2].file)
    /\ results[3].status = "success"
    /\ SummaryPrinted

\* C4: when the schema file is missing, unparsable or rejected by the
\* compiler, or the directory cannot be listed, no record file is read or
\* validated and no result is produced; the run ends with one error report
\* as its last output and a non-zero status.
C4_ConfigFailureAborts ==
    ConfigFailure =>
        /\ filesRead = <<>>
        /\ validateCalls = <<>>
        /\ results = <<>>
        /\ RecordLines = <<>>
        /\ pc # "exited" =>
              \A k \in 1..Len(console) : console[k].stream # "error"
        /\ pc = "exited" =>
              /\ exitCode # 0
              /\ Cardinality({k \in 1..Len(console) : console[k].stream = "error"}) = 1
              /\ console[Len(console)].stream = "error"

C4_Witness ==
    /\ pc = "exited"
    /\ ~fsDirReadable
    /\ schema = PluginSchema
    /\ compiled
    /\ DOMAIN fsFiles # {}
    /\ exitCode = 1

\* C5: in the summary, Passed is the number of results without errors,
\* Failed the number of results with errors, Passed + Failed the number of
\* record files enumerated, and Errors the sum of the error counts.
C5_SummaryCounts ==
    (pc = "exited" /\ SummaryPrinted) =>
        LET passed == Cardinality({i \in 1..Len(results) : results[i].errors = <<>>})
            failed == Cardinality({i \in 1..Len(results) : results[i].errors # <<>>})
        IN  /\ SummaryShows("  [ok] Passed: ", passed)
            /\ SummaryShows("  [x] Failed: ", failed)
            /\ SummaryShows("  [!]  Errors: ", SumErrors(results))
            /\ passed + failed = Len(EnumeratedFiles)

C5_Witness ==
    /\ pc = "exited"
    /\ SummaryPrinted
    /\ \E i, j \in 1..Len(results) :
          /\ results[i].status = "success"
          /\ Len(results[j].errors) >= 2

\* C6: a result has status success exactly when its list of errors is empty.
C6_ValidIffNoErrors ==
    \A i \in 1..Len(results) :
        /\ results[i].status \in {"success", "error"}
        /\ results[i].status = "success" <=> results[i].errors = <<>>

C6_Witness ==
    /\ pc = "print"
    /\ \E i, j, k \in 1..Len(results) :
          /\ results[i].status = "success"
          /\ results[j].status = "error" /\ Unparsable(results[j].file)
          /\ results[k].status = "error" /\ ~Unparsable(results[k].file)

\* the console shows one pass/fail line per enumerated record, in order, and
\* after them the summary
OneLinePerRecordThenSummary ==
    /\ SummaryPrinted
    /\ Len(RecordLines) = Len(EnumeratedFiles)
    /\ \A i \in 1..Len(RecordLines) :
          /\ Tail(RecordLines[i].text) = EnumeratedFiles[i]
          /\ RecordLines[i].text[1] = "[ok] " <=> FileConforms(EnumeratedFiles[i])
    /\ \A k, m \in 1..Len(console) :
          (IsRecordLine(console[k]) /\ console[m].text = SummaryHeader) => k < m

\* C7 as stated: every run whose schema and directory load succeed, for any
\* number n >= 0 of record files, prints one pass/fail line per record and
\* then the summary before it terminates.
C7_Original ==
    (pc = "exited" /\ ~ConfigFailure) => OneLinePerRecordThenSummary

\* C7 amended: every run whose schema and directory load succeed prints, for
\* n >= 1 record files, one pass/fail line per record and then the summary;
\* for n = 0 it prints a warning, no summary, and ends with status 0.
C7_Amended ==
    (pc = "exited" /\ ~ConfigFailure) =>
        IF DOMAIN fsFiles # {}
        THEN OneLinePerRecordThenSummary
        ELSE /\ ~SummaryPrinted
             /\ RecordLines = <<>>
             /\ console[Len(console)].stream = "warn"
             /\ exitCode = 0

C7_Witness ==
    /\ pc = "exited"
    /\ ~ConfigFailure
    /\ Len(EnumeratedFiles) >= 2
    /\ SummaryPrinted
    /\ \E i, j \in 1..Len(RecordLines) :
          RecordLines[i].text[1] = "[ok] " /\ RecordLines[j].text[1] = "[x] "

-----------------------------------------------------------------------------
(* Claims about one validation.                                            *)

\* The violations of node by data, as JSON Schema defines them: a set of
\* (keyword, location, name), the name being that of a missing required
\* property.  A required violation is located at the object that lacks the
\* property.
RECURSIVE Violations(_, _, _)
Violations(node, data, path) ==
    LET V(keyword, name) == [keyword |-> keyword, at |-> path, name |-> name]
        isString == data.t = "string"
        isNumber == data.t = "number"
        isObject == data.t = "object"
    IN  {V("type", "") : x \in {y \in {1} : Has(node, "type") /\ data.t # node.type}}
        \cup {V("enum", "") : x \in {y \in {1} :
                 /\ Has(node, "enum")
                 /\ ~(isString /\ data.s \in {node.enum[j] : j \in 1..Len(node.enum)})}}
        \cup {V("minLength", "") : x \in {y \in {1} :
                 isString /\ Has(node, "minLength") /\ Len(data.s) < node.minLength}}
        \cup {V("maxLength", "") : x \in {y \in {1} :
                 isString /\ Has(node, "maxLength") /\ Len(data.s) > node.maxLength}}
        \cup {V("pattern", "") : x \in {y \in {1} :
                 isString /\ Has(node, "pattern") /\ ~RegExpTest(node.pattern, data.s)}}
        \cup {V("minimum", "") : x \in {y \in {1} :
                 isNumber /\ Has(node, "minimum") /\ data.n < node.minimum}}
        \cup {V("maximum", "") : x \in {y \in {1} :
                 isNumber /\ Has(node, "maximum") /\ data.n > node.maximum}}
        \cup {V("minProperties", "") : x \in {y \in {1} :
                 /\ isObject /\ Has(node, "minProperties")
                 /\ Cardinality(DOMAIN data.o) < node.minProperties}}
        \cup {V("required", node.required[j]) : j \in {k \in 1..
                 (IF isObject /\ Has(node, "required") THEN Len(node.required) ELSE 0) :
                 node.required[k] \notin DOMAIN data.o}}
        \cup UNION {Violations(node.properties[j].node,
                               data.o[node.properties[j].name],
                               Append(path, node.properties[j].name)) :
                 j \in {k \in 1..
                    (IF isObject /\ Has(node, "properties") THEN Len(node.properties) ELSE 0) :
                    node.properties[k].name \in DOMAIN data.o}}

\* the error reports the violation
Reports(error, v) ==
    /\ error.keyword = v.keyword
    /\ error.instancePath = JsonPointer(v.at)
    /\ v.keyword = "required" => error.params.missingProperty = v.name

\* line k .. of a formatted error holds the tokens of part
HoldsAt(line, k, part) ==
    /\ k + Len(part) - 1 <= Len(line)
    /\ \A j \in 1..Len(part) : line[k + j - 1] = part[j]
Holds(line, part) == \E k \in 1..Len(line) : HoldsAt(line, k, part)

\* C8: validation is exhaustive: every violation of the record is reported
\* by an error of its own and a line of its own, so that a missing required
\* property hides no sibling or nested violation and a value violating two
\* constraints yields two errors.
C8_Exhaustive ==
    vDone =>
        LET viol == Violations(vSchema, vData, <<>>)
        IN  /\ \A v \in viol : \E i \in 1..Len(vErrors) : Reports(vErrors[i], v)
            /\ Len(vErrors) = Cardinality(viol)
            /\ Len(vLines) = Len(vErrors)
            /\ \A i \in 1..Len(vLines) :
                  HoldsAt(vLines[i], 1, <<"  [x] ", vErrors[i].keyword>>)

C8_Witness ==
    /\ vDone
    /\ vData.t = "object"
    /\ "category" \notin DOMAIN vData.o
    /\ \E i, j, k, m \in 1..Len(vErrors) :
          /\ vErrors[i].keyword = "required"
          /\ vErrors[i].params.missingProperty = "category"
          /\ vErrors[j].keyword = "minLength" /\ vErrors[j].instancePath = <<"/", "id">>
          /\ vErrors[k].keyword = "pattern" /\ vErrors[k].instancePath = <<"/", "id">>
          /\ vErrors[m].keyword = "maximum"
          /\ vErrors[m].instancePath = <<"/", "pricing", "/", "price">>

\* the required names that object data, validated by node, lacks
MissingRequired(node, data) ==
    IF data.t = "object" /\ Has(node, "required")
    THEN {node.required[j] : j \in 1..Len(node.required)} \ DOMAIN data.o
    ELSE {}

\* C9 as stated: for every property of the schema's required list that the
\* record lacks there is an error of kind required whose path is that
\* property's name.
C9_Original ==
    vDone =>
        \A name \in MissingRequired(vSchema, vData) :
            \E i \in 1..Len(vErrors) :
                /\ vErrors[i].keyword = "required"
                /\ vErrors[i].instancePath \in {<<name>>, JsonPointer(<<name>>)}

\* C9 amended: for every property of a required list that the record lacks
\* there is an error of kind required whose path is the path of the object
\* that lacks the property (empty for a top-level property) and whose
\* message names the property.
C9_Amended ==
    vDone =>
        /\ \A name \in MissingRequired(vSchema, vData) :
              \E i \in 1..Len(vErrors) :
                  /\ vErrors[i].keyword = "required"
                  /\ vErrors[i].instancePath = <<>>
                  /\ vErrors[i].params.missingProperty = name
                  /\ vLines[i] = <<"  [x] ", "required", ": ",
                                   "must have required property '", name, "'">>
        /\ (vData.t = "object" /\ "pricing" \in DOMAIN vData.o) =>
              \A name \in MissingRequired(vSchema.properties[3].node, vData.o.pricing) :
                  \E i \in 1..Len(vErrors) :
                      /\ vErrors[i].keyword = "required"
                      /\ vErrors[i].instancePath = <<"/", "pricing">>
                      /\ vErrors[i].params.missingProperty = name
                      /\ vLines[i] = <<"  [x] ", "required", " at ", "/", "pricing", ": ",
                                       "must have required property '", name, "'">>

C9_Witness ==
    /\ vDone
    /\ Cardinality(MissingRequired(vSchema, vData)) >= 2
    /\ vData.t = "object"
    /\ "pricing" \in DOMAIN vData.o
    /\ MissingRequired(vSchema.properties[3].node, vData.o.pricing) = {"price"}

\* the schema node that validates the value at the JSON pointer
RECURSIVE NodeAt(_, _)
NodeAt(node, pointer) ==
    IF pointer = <<>> THEN node
    ELSE LET j == CHOOSE k \in 1..Len(node.properties) :
                     node.properties[k].name = pointer[2]
         IN  NodeAt(node.properties[j].node, SubSeq(pointer, 3, Len(pointer)))

\* the allowed values as a line shows them: each value, ", " between two
Listed(values) ==
    [j \in 1..(2 * Len(values) - 1) |->
        IF j % 2 = 1 THEN values[(j + 1) \div 2] ELSE ", "]

\* C10: every reported error carries the details of its constraint: an enum
\* error the allowed values in the schema's order, a pattern error the
\* schema's pattern text, a minLength, maxLength, minimum or maximum error
\* the limit the schema declares.
C10_Details ==
    vDone =>
        /\ Len(vLines) = Len(vErrors)
        /\ \A i \in 1..Len(vErrors) :
              LET keyword == vErrors[i].keyword
                  node == NodeAt(vSchema, vErrors[i].instancePath)
                  line == vLines[i]
              IN  /\ keyword = "enum" =>
                        Holds(line, <<" (allowed: ">> \o Listed(node.enum) \o <<")">>)
                  /\ keyword = "pattern" =>
                        Holds(line, <<" (pattern: ", node.pattern, ")">>)
                  /\ keyword = "minLength" =>
                        Holds(line, <<" (minimum: ", ToString(node.minLength), ")">>)
                  /\ keyword = "minimum" =>
                        Holds(line, <<" (minimum: ", ToString(node.minimum), ")">>)
                  /\ keyword = "maxLength" =>
                        Holds(line, <<" (maximum: ", ToString(node.maxLength), ")">>)
                  /\ keyword = "maximum" =>
                        Holds(line, <<" (maximum: ", ToString(node.maximum), ")">>)

C10_Witness ==
    /\ vDone
    /\ \E i, j, k \in 1..Len(vErrors) :
          /\ vErrors[i].keyword = "enum"
          /\ vErrors[j].keyword = "pattern"
          /\ vErrors[k].keyword = "minimum" /\ vErrors[k].params.limit = 0
          /\ Holds(vLines[k], <<" (minimum: ", "0", ")">>)

C12_UnknownPropertyAllowed ==
    (vDone /\ ExtraName \in DOMAIN vData.o
           /\ ~Has(vSchema, "additionalProperties")) =>
        /\ vErrors = validate(vSchema, WithoutExtra(vData)).errors
        /\ \A i \in 1..Len(vErrors) : vErrors[i].keyword # "additionalProperties"
        /\ (Violations(vSchema, WithoutExtra(vData), <<>>) = {} =>
                vErrors = <<>> /\ vLines = <<>>)

C12_Witness ==
    /\ vDone
    /\ ~Has(vSchema, "additionalProperties")
    /\ DOMAIN vData.o = {"id", "category", "pricing", ExtraName}
    /\ Violations(vSchema, WithoutExtra(vData), <<>>) = {}
    /\ vErrors = <<>>
    /\ vLines = <<>>

\* the names of the directory entries that end in .json, listed one by one
JsonNames ==
    {SchemaName, LookalikeName} \cup {RecordName(k) : k \in 1..(MaxFiles + 1)}

\* main has listed the directory
Enumerated == fsDirReadable /\ pc \in {"forEach", "print", "summary", "exited"}
                            /\ compiled

\* C13: the record set is exactly the directory entries whose name ends in
\* .json, without the entry named schema.json, each once and in listing
\* order; schema.json is never read as a record, a record file whose name
\* only contains the schema's name is.
C13_RecordSet ==
    /\ Enumerated =>
          /\ {Basename(pluginFiles[i]) : i \in 1..Len(pluginFiles)}
                = {fsDir[i] : i \in 1..Len(fsDir)} \cap (JsonNames \ {SchemaName})
          /\ [i \in 1..Len(pluginFiles) |-> Basename(pluginFiles[i])]
                = SelectSeq(fsDir, LAMBDA f : f \in JsonNames \ {SchemaName})
          /\ {Basename(pluginFiles[i]) : i \in 1..Len(pluginFiles)} = DOMAIN fsFiles
    /\ \A i \in 1..Len(filesRead) :
          filesRead[i] \in JsonNames \ {SchemaName}
    /\ \A i \in 1..Len(results) : results[i].file # SchemaName

C13_Witness ==
    /\ pc = "summary"
    /\ \E i, j, k, l \in 1..Len(fsDir) :
          /\ fsDir[i] = SchemaName
          /\ fsDir[j] = DocName
          /\ fsDir[k] = BackupName
          /\ fsDir[l] = LookalikeName
    /\ Len(pluginFiles) = 2
    /\ \E i \in 1..Len(results) : results[i].file = LookalikeName
    /\ Len(filesRead) = 2

\* the roadmap command's schema loaded and compiled
RoadmapConfigOk == fsSchema.kind = "json" /\ ValidSchema(fsSchema.doc)

\* the roadmap file parses and its record breaks no constraint of the schema
RoadmapSatisfies ==
    /\ fsRoadmap.kind = "json"
    /\ Violations(fsSchema.doc, fsRoadmap.doc, <<>>) = {}

\* the error lines on the console, in order
ErrorLines == SelectSeq(console, LAMBDA l : l.stream = "error")

\* C14: with its schema in place, validate-roadmap ends with status 0 exactly
\* when the roadmap record satisfies the schema, and with any schema status 0
\* means it did; when validation fails, the header and one line for every
\* Field Error are on the console when the process ends with status 1.
C14_RoadmapExit ==
    pc = "exited" =>
        /\ exitCode \in {0, 1}
        /\ exitCode = 0 => RoadmapConfigOk /\ RoadmapSatisfies
        /\ RoadmapConfigOk => (exitCode = 0 <=> RoadmapSatisfies)
        /\ (RoadmapConfigOk /\ fsRoadmap.kind = "json" /\ ~RoadmapSatisfies) =>
              LET viol == Violations(fsSchema.doc, fsRoadmap.doc, <<>>)
              IN  /\ exitCode = 1
                  /\ Len(validateErrors) = Cardinality(viol)
                  /\ \A v \in viol :
                        \E i \in 1..Len(validateErrors) : Reports(validateErrors[i], v)
                  /\ Len(ErrorLines) = 1 + Len(validateErrors)
                  /\ ErrorLines[1].text =
                        <<"[x] Roadmap validation failed with ",
                          ToString(Cardinality(viol)), " error(s):">>
                  /\ \A i \in 1..Len(validateErrors) :
                        ErrorLines[i + 1].text = formatErrorRoadmap(validateErrors[i])

C14_Witness ==
    /\ pc = "exited"
    /\ exitCode = 1
    /\ RoadmapConfigOk
    /\ fsRoadmap.kind = "json"
    /\ Len(validateErrors) = 3
    /\ Len(ErrorLines) = 4
    /\ \E i \in 1..3 : validateErrors[i].instancePath = <<"/", "pricing">>

\* the roadmap file cannot be read or is no JSON document, the schema is fine
RoadmapUnparsable == RoadmapConfigOk /\ fsRoadmap.kind # "json"

\* some console line holds the tokens of part
ConsoleHolds(part) == \E i \in 1..Len(console) : Holds(console[i].text, part)

\* C15 as stated: an unparsable roadmap file is reported the way
\* validate-records reports one, as a failed record named on a line of its
\* own followed by a single JSON Parse Error line, not as a failure to load,
\* and the status is 1.
C15_Original ==
    (pc = "exited" /\ RoadmapUnparsable) =>
        /\ exitCode = 1
        /\ \E i \in 1..(Len(console) - 1) :
              /\ console[i].text = <<"[x] ">> \o RoadmapName
              /\ console[i + 1].text = <<"JSON Parse Error: ", fsRoadmap.message>>
        /\ ~ConsoleHolds(<<"[x] Failed to load roadmap file: ">>)

\* C15 (amended): an unparsable roadmap file ends the command with status 1
\* after a single error line, Failed to load roadmap file and the message,
\* of the same form as the schema load failure; no record result line, no
\* JSON Parse Error line, and the validator is never called.
C15_Amended ==
    (pc = "exited" /\ RoadmapUnparsable) =>
        /\ exitCode = 1
        /\ ErrorLines = <<Line("error", <<"[x] Failed to load roadmap file: ",
                                          fsRoadmap.message>>)>>
        /\ ~ConsoleHolds(RoadmapName)
        /\ ~ConsoleHolds(<<"JSON Parse Error: ">>)
        /\ validateCalls = <<>>
        /\ roadmap = Null

C15_Witness ==
    /\ pc = "exited"
    /\ RoadmapUnparsable
    /\ fsRoadmap.kind = "malformed"
    /\ exitCode = 1
    /\ Len(console) = 2
    /\ console[2].stream = "error"

-----------------------------------------------------------------------------
(* Claims about the generated documentation.                               *)

\* the schema has been rendered twice, at two times
RenderedTwice == renders >= 2 /\ ~thrown

\* the lines of md that hold the token sequence of toISOString(t)
TimeLines(md, t) == {i \in 1..Len(md) : Holds(md[i], toISOString(t))}

\* C16: two renderings of the same schema are the same markdown line by
\* line, except for the time of the rendering, and each rendering carries
\* its time on one line only, the last one.
C16_Deterministic ==
    RenderedTwice =>
        /\ Len(markdown) = Len(previous)
        /\ \A i \in 1..(Len(markdown) - 1) : markdown[i] = previous[i]
        /\ markdown[Len(markdown)] # previous[Len(previous)]
        /\ markdown[Len(markdown)] = <<"**Last updated:** ">> \o toISOString(clock)
        /\ markdown[Len(markdown)][1] = previous[Len(previous)][1]
        /\ TimeLines(markdown, clock) = {Len(markdown)}
        /\ \A t \in 0..(clock - 1) : TimeLines(markdown, t) = {}

C16_Witness ==
    /\ RenderedTwice
    /\ Len(docSchema.properties) = 5
    /\ docSchema.properties[1].name = "quickstart"
    /\ Has(docSchema.properties[1].node.items, "properties")
    /\ Has(docSchema.properties[2].node, "properties")
    /\ markdown # previous
    /\ clock = 4

\* the headings the generator writes for a property name
PropertyHeading(name) == <<"#### '", name, "'">>
NestedHeading(path) == <<"### '">> \o path \o <<"'">>
ArrayItemsHeading(name) == <<"### '", name, "[]' - Array Items">>

\* a rendering of a schema generateMarkdown does not throw on
Rendered == renders >= 1 /\ ~thrown

\* the lines of the rendering that are line, and the heading lines whose
\* text starts with name
LinesEqual(line) == {i \in 1..Len(markdown) : markdown[i] = line}
HeadingsNaming(name) ==
    {i \in 1..Len(markdown) :
        /\ Len(markdown[i]) >= 2
        /\ markdown[i][1] \in {"#### '", "### '"}
        /\ markdown[i][2] = name}

HasNestedProperties(prop) == IsObjectType(prop) /\ Has(prop, "properties")
HasItemProperties(prop) ==
    IsArrayType(prop) /\ Has(prop, "items") /\ Has(prop.items, "properties")

\* the properties rendered below top-level property prop: its children when
\* it is an object with properties, its item properties when it is an array
\* of objects
Below(prop) ==
    IF HasNestedProperties(prop) THEN prop.properties
    ELSE IF HasItemProperties(prop) THEN prop.items.properties
    ELSE <<>>

\* the places below the top level where a property called name is rendered:
\* entry k below top-level property i
NestedOccurrences(name) ==
    UNION {{<<i, k>> : k \in {j \in 1..Len(Below(docSchema.properties[i].node)) :
                                Below(docSchema.properties[i].node)[j].name = name}} :
              i \in 1..Len(docSchema.properties)}

\* C17 as stated: every top-level property has exactly one heading in the
\* markdown, whatever its type.
C17_Original ==
    Rendered =>
        \A i \in 1..Len(docSchema.properties) :
            Cardinality(HeadingsNaming(docSchema.properties[i].name)) = 1

\* C17 (amended): every top-level property has exactly one heading of its
\* own section, at level four; an object with nested properties has a second
\* heading of the same name at level three, an array of objects a second
\* heading name[] - Array Items at level three, any other property no second
\* heading; the level-four heading text is repeated once for every nested or
\* item property of the same name.
C17_Amended ==
    Rendered =>
        \A i \in 1..Len(docSchema.properties) :
            LET name == docSchema.properties[i].name
                prop == docSchema.properties[i].node
            IN  /\ Cardinality(LinesEqual(PropertyHeading(name)))
                      = 1 + Cardinality(NestedOccurrences(name))
                /\ Cardinality(LinesEqual(NestedHeading(<<name>>)))
                      = IF HasNestedProperties(prop) THEN 1 ELSE 0
                /\ Cardinality(LinesEqual(ArrayItemsHeading(name)))
                      = IF HasItemProperties(prop) THEN 1 ELSE 0
                /\ Cardinality(HeadingsNaming(name))
                      = 1 + Cardinality(NestedOccurrences(name))
                        + (IF HasNestedProperties(prop) \/ HasItemProperties(prop)
                           THEN 1 ELSE 0)

C17_Witness ==
    /\ Rendered
    /\ \E i, j, k \in 1..Len(docSchema.properties) :
          /\ docSchema.properties[i].name = "pricing"
          /\ HasNestedProperties(docSchema.properties[i].node)
          /\ docSchema.properties[j].name = "quickstart"
          /\ HasItemProperties(docSchema.properties[j].node)
          /\ docSchema.properties[k].name = "description"
    /\ Cardinality(HeadingsNaming("pricing")) = 2
    /\ Cardinality(HeadingsNaming("quickstart")) = 2
    /\ Cardinality(HeadingsNaming("description")) = 2
    /\ Cardinality(HeadingsNaming("id")) = 1

\* the first line of the rendering that is line (0 when there is none)
IndexOf(line) ==
    IF LinesEqual(line) = {} THEN 0
    ELSE CHOOSE i \in LinesEqual(line) : \A j \in LinesEqual(line) : i <= j

\* the lines of the Required Fields section after its intro, up to the blank
\* lines in front of the Field Reference heading
RequiredSection ==
    SubSeq(markdown, IndexOf(RequiredFieldsHeading) + 4,
                     IndexOf(FieldReferenceHeading) - 3)

Bullet(name) == <<"- '", name, "'">>

HeadingLevel(line) ==
    IF line = <<>> THEN 0
    ELSE IF line[1] \in {"### '"} THEN 3
    ELSE IF line[1] \in {"#### '", "#### Item Properties"} THEN 4
    ELSE IF line[1] \in {"##### '"} THEN 5
    ELSE 0

\* the paths of the object properties that declare nested properties, at
\* every depth: a path is the sequence of property names from the top
RECURSIVE ObjectPathsBelow(_, _)
ObjectPathsBelow(node, path) ==
    IF ~HasNestedProperties(node) THEN {}
    ELSE (IF path = <<>> THEN {} ELSE {path})
         \cup UNION {ObjectPathsBelow(node.properties[i].node,
                                      Append(path, node.properties[i].name)) :
                        i \in 1..Len(node.properties)}

\* the dotted text of a path: parent.child
RECURSIVE Dotted(_)
Dotted(path) ==
    IF Len(path) = 1 THEN <<path[1]>>
    ELSE fullPath(path[Len(path)], Dotted(SubSeq(path, 1, Len(path) - 1)))

\* C19: every property of type object that declares nested properties, at
\* whatever depth, has a nested sub-section whose heading carries the dotted
\* path of the property and is one level deeper than the property's own
\* heading.
C19_NestedSections ==
    Rendered =>
        \A path \in ObjectPathsBelow(docSchema, <<>>) :
            \E own, sub \in 1..Len(markdown) :
                /\ markdown[own] = PropertyHeading(path[Len(path)])
                /\ HeadingLevel(markdown[sub]) > 0
                /\ HoldsAt(markdown[sub], 2, Dotted(path))
                /\ own < sub
                /\ HeadingLevel(markdown[sub]) = HeadingLevel(markdown[own]) + 1

\* the array properties whose items declare properties, at every depth
RECURSIVE ArraysOfObjectsBelow(_)
ArraysOfObjectsBelow(node) ==
    IF ~HasNestedProperties(node) THEN {}
    ELSE UNION {(IF HasItemProperties(node.properties[i].node)
                 THEN {node.properties[i]} ELSE {})
                \cup ArraysOfObjectsBelow(node.properties[i].node) :
                    i \in 1..Len(node.properties)}

\* C20: every property of type array whose items declare properties has a
\* sub-section for its items, headed Item Properties (the heading
\* name[] - Array Items is accepted as well), in which every item property
\* is rendered by the per-property rules, in the order of the items'
\* properties.
C20_ItemProperties ==
    Rendered =>
        \A entry \in ArraysOfObjectsBelow(docSchema) :
            LET items == propertiesDocumentation(entry.node.items)
            IN  \E h, k \in 1..Len(markdown) :
                    /\ markdown[h] \in {<<"#### Item Properties">>,
                                        ArrayItemsHeading(entry.name)}
                    /\ h < k /\ k <= h + 4
                    /\ k + Len(items) - 1 <= Len(markdown)
                    /\ SubSeq(markdown, k, k + Len(items) - 1) = items

\* the properties that get a section, in the order the claim asks for: each
\* top-level property, followed by the properties rendered below it
SectionEntries ==
    Concat([i \in 1..Len(docSchema.properties) |->
               <<docSchema.properties[i]>> \o Below(docSchema.properties[i].node)])

\* the lines that open a property section, in the order of the rendering
SectionStarts ==
    SelectSeq([i \in 1..Len(markdown) |-> i],
              LAMBDA i : markdown[i] # <<>> /\ markdown[i][1] = "#### '")

\* a line that opens a section of any level
IsHeadingLine(line) ==
    /\ line # <<>>
    /\ line[1] \in {"#### '", "### '", "#### Item Properties", "## Examples"}

\* the lines of the k-th property section that are not empty: from its
\* heading to the line in front of the next heading
SectionLines(k) ==
    LET from == SectionStarts[k]
        next == {j \in (from + 1)..Len(markdown) : IsHeadingLine(markdown[j])}
        to == (CHOOSE j \in next : \A m \in next : j <= m) - 1
    IN  SelectSeq(SubSeq(markdown, from, to), LAMBDA l : l # <<>>)

\* the place of a line of the section of node in the order heading, type,
\* required, description, allowed values, pattern, string length, range,
\* examples, default
FragmentRank(line, node) ==
    IF line[1] = "#### '" THEN 1
    ELSE IF line[1] = "**Type:** '" THEN 2
    ELSE IF line[1] = "**Required:** " THEN 3
    ELSE IF Has(node, "description") /\ line = <<node.description>> THEN 4
    ELSE IF line[1] \in {"**Allowed values:**", "- '"} THEN 5
    ELSE IF line[1] = "**Pattern:** '" THEN 6
    ELSE IF line[1] = "**String length:** " THEN 7
    ELSE IF line[1] = "**Range:** " THEN 8
    ELSE IF line[1] \in {"**Examples:**", "'"} THEN 9
    ELSE IF line[1] = "**Default:** '" THEN 10
    ELSE 0

\* C21: the property sections come in the iteration order of the properties
\* (each top-level property, then the properties rendered below it in their
\* order), and the lines of a section come in the order heading, type line,
\* required indicator, description, allowed values in the order of enum,
\* pattern, string length, range, examples, default.
C21_FragmentOrder ==
    Rendered =>
        /\ Len(SectionStarts) = Len(SectionEntries)
        /\ \A k \in 1..Len(SectionStarts) :
              LET node == SectionEntries[k].node
                  lines == SectionLines(k)
                  bullets == SelectSeq(lines, LAMBDA l : l[1] = "- '")
              IN  /\ lines[1] = PropertyHeading(SectionEntries[k].name)
                  /\ Len(lines) >= 3
                  /\ FragmentRank(lines[2], node) = 2
                  /\ FragmentRank(lines[3], node) = 3
                  /\ \A i \in 1..Len(lines) : FragmentRank(lines[i], node) > 0
                  /\ \A i, j \in 1..Len(lines) :
                        i < j =>
                          \/ FragmentRank(lines[i], node) < FragmentRank(lines[j], node)
                          \/ /\ FragmentRank(lines[i], node) = FragmentRank(lines[j], node)
                             /\ FragmentRank(lines[i], node) \in {5, 9}
                  /\ Has(node, "enum") =>
                        bullets = [i \in 1..Len(node.enum) |-> Bullet(node.enum[i])]

C21_Witness ==
    /\ Rendered
    /\ Len(docSchema.properties) = 5
    /\ docSchema.properties[5].name = "id"
    /\ docSchema.properties[2].name = "pricing"
    /\ Len(Below(docSchema.properties[2].node)) = 2
    /\ Len(SectionStarts) = 9
    /\ [i \in 1..Len(SectionLines(9)) |->
           FragmentRank(SectionLines(9)[i], docSchema.properties[5].node)]
         = <<1, 2, 3, 4, 5, 5, 5, 6, 7, 8, 9, 9, 10>>

\* the bounds a node declares under the keywords lo and hi, as the line of
\* the section lists them
DeclaredBounds(node, lo, hi) ==
    (IF Has(node, lo) THEN << <<"min: ", ToString(node[lo])>> >> ELSE <<>>)
    \o (IF Has(node, hi) THEN << <<"max: ", ToString(node[hi])>> >> ELSE <<>>)

\* C22: the section of a property has a string-length line exactly when the
\* node declares minLength or maxLength and a range line exactly when it
\* declares minimum or maximum, and the line lists every declared bound,
\* whatever its value, 0 included.
C22_BoundLines ==
    Rendered =>
        \A k \in 1..Len(SectionStarts) :
            LET node == SectionEntries[k].node
                lines == SectionLines(k)
                lengths == SelectSeq(lines, LAMBDA l : l[1] = "**String length:** ")
                ranges == SelectSeq(lines, LAMBDA l : l[1] = "**Range:** ")
                declaredLengths == DeclaredBounds(node, "minLength", "maxLength")
                declaredRanges == DeclaredBounds(node, "minimum", "maximum")
            IN  /\ lengths = IF declaredLengths = <<>> THEN <<>>
                             ELSE << <<"**String length:** ">>
                                     \o JoinParts(declaredLengths, ", ") >>
                /\ ranges = IF declaredRanges = <<>> THEN <<>>
                            ELSE << <<"**Range:** ">>
                                    \o JoinParts(declaredRanges, ", ") >>

-----------------------------------------------------------------------------
(* Claims about a run of the documentation generator.                      *)

\* C23: generate-docs ends with status 0, the markdown written, when the
\* schema file is read and parsed and the output can be written; it ends
\* with status 1 when the schema cannot be read or parsed or the output
\* cannot be written; a schema that parses never makes it end with status 1,
\* whatever the schema declares or fails to declare.
C23_DocsExit ==
    pc = "exited" =>
        /\ exitCode \in {0, 1}
        /\ exitCode = 0 =>
              fsDocs = [kind |-> "text", lines |-> markdown] /\ renders = 1
        /\ (fsSchema.kind # "json" \/ fsDocsWrite # "ok") => exitCode = 1
        /\ (fsSchema.kind = "json" /\ fsDocsWrite = "ok") => exitCode = 0


\* C26: generate-docs writes the output file only once the complete
\* markdown is rendered: the file changes in the writing step alone, a run
\* that ends with status 0 leaves exactly the rendered markdown in it, and a
\* run whose reading, parsing or rendering fails leaves the file as it was.
C26_WriteAfterRender ==
    [][/\ fsDocs' # fsDocs =>
             /\ pc = "docsWrite"
             /\ markdown = generateMarkdown(docSchema, clock)
       /\ (pc' = "exited" /\ exitCode' = 0) =>
             fsDocs' = [kind |-> "text", lines |-> markdown]
       /\ (pc' = "exited" /\ (fsSchema.kind # "json" \/ thrown')) =>
             fsDocs' = fsDocs /\ fsDocs' \in DocsFiles]_vars

\* a run stopped by a rendering failure, next to an earlier documentation
C26_Witness ==
    /\ pc = "exited"
    /\ thrown
    /\ exitCode = 1
    /\ fsDocs = OldDocs

-----------------------------------------------------------------------------
(* Claims about the shared validator and the order of the batch output.    *)

\* C24: the one compiled validator is reused for every record, and what a
\* record is charged with is exactly what validating that record alone
\* gives: its errors and its status are those of its own content, two
\* records of equal content get equal results wherever they stand in the
\* batch, and the validator's errors are those of the record validated last.
C24_NoLeakBetweenRecords ==
    LET alone(f) == validate(fsSchema.doc, fsFiles[f].doc).errors
    IN  /\ \A i \in 1..Len(results) :
              fsFiles[results[i].file].kind = "json" =>
                 /\ results[i].errors =
                       [k \in 1..Len(alone(results[i].file)) |->
                           formatError(alone(results[i].file)[k])]
                 /\ results[i].status = "error" <=> alone(results[i].file) # <<>>
        /\ \A i, j \in 1..Len(results) :
              fsFiles[results[i].file] = fsFiles[results[j].file] =>
                 /\ results[i].errors = results[j].errors
                 /\ results[i].status = results[j].status
        /\ validateCalls # <<>> =>
              validateErrors = alone(validateCalls[Len(validateCalls)])

\* two violations, then a conforming record, then a different violation
C24_Witness ==
    /\ Len(results) = 3
    /\ Len(validateCalls) = 3
    /\ Len(results[1].errors) = 2
    /\ results[2].status = "success"
    /\ Len(results[3].errors) = 1
    /\ validateErrors # <<>>


\* where the k-th per-record line stands on the console
RecordPosition(k) ==
    CHOOSE p \in 1..Len(console) :
        /\ IsRecordLine(console[p])
        /\ Cardinality({q \in 1..p : IsRecordLine(console[q])}) = k

SummaryPosition ==
    CHOOSE p \in 1..Len(console) : console[p].text = SummaryHeader

\* C25: the batch output is ordered: no per-record line is printed before
\* every record has been validated; the per-record lines come in enumeration
\* order; the errors of a failed record follow its line directly; every
\* per-record line stands above the summary; and a run that printed
\* per-record lines prints the summary before it exits.
C25_OutputOrder ==
    /\ RecordLines # <<>> =>
          /\ pc \in {"print", "summary", "exited"}
          /\ idx = Len(pluginFiles)
          /\ Len(results) = Len(EnumeratedFiles)
    /\ Len(RecordLines) = printed
    /\ \A k \in 1..Len(RecordLines) :
          LET p == RecordPosition(k)
              r == results[k]
          IN  /\ Tail(RecordLines[k].text) = EnumeratedFiles[k]
              /\ r.file = EnumeratedFiles[k]
              /\ RecordLines[k].text[1] = "[x] " <=> r.status = "error"
              /\ r.status = "error" =>
                    /\ Len(console) >= p + Len(r.errors)
                    /\ \A j \in 1..Len(r.errors) : console[p + j].text = r.errors[j]
              /\ SummaryPrinted => p < SummaryPosition
    /\ SummaryPrinted => Len(RecordLines) = Len(EnumeratedFiles)
    /\ (pc = "exited" /\ RecordLines # <<>>) =>
          /\ SummaryPrinted
          /\ SummaryPosition < Len(console)

\* failed, passed, failed, and then the summary
C25_Witness ==
    /\ pc = "exited"
    /\ SummaryPrinted
    /\ Len(RecordLines) = 3
    /\ Len(results[1].errors) = 2
    /\ results[2].status = "success"
    /\ results[3].status = "error"


\* the required list each property section is to be judged by: the root's
\* for a top-level property, the enclosing object's or the items' own for
\* the properties rendered below it
EnclosingRequired(prop) ==
    IF HasNestedProperties(prop) THEN RequiredOf(prop)
    ELSE IF HasItemProperties(prop) THEN RequiredOf(prop.items)
    ELSE <<>>

SectionRequired ==
    Concat([i \in 1..Len(docSchema.properties) |->
               <<RequiredOf(docSchema)>>
               \o [k \in 1..Len(Below(docSchema.properties[i].node)) |->
                      EnclosingRequired(docSchema.properties[i].node)]])

RequiredLine(yes) == <<"**Required:** ", IF yes THEN "[ok] Yes" ELSE "[x] No">>

\* C27: the Required indicator of a property section is Yes exactly when the
\* property's name is in the required list of what encloses it: the root's
\* list for a top-level property, the enclosing object's own list for a
\* nested child, the items' own list for an item property, and No where that
\* list is absent.
C27_RequiredIndicator ==
    Rendered =>
        /\ Len(SectionStarts) = Len(SectionRequired)
        /\ \A k \in 1..Len(SectionStarts) :
              LET lines == SectionLines(k)
                  indicators == SelectSeq(lines, LAMBDA l : l[1] = "**Required:** ")
              IN  indicators =
                     <<RequiredLine(Includes(SectionRequired[k], SectionEntries[k].name))>>

\* the root requires id and not step: the id nested in an object without a
\* required list is rendered No, the step of items that require it Yes
C27_Witness ==
    /\ Rendered
    /\ Includes(RequiredOf(docSchema), "id")
    /\ \E k \in 1..Len(SectionStarts) :
          /\ SectionEntries[k].name = "id"
          /\ SectionRequired[k] = <<>>
          /\ SectionLines(k)[3] = RequiredLine(FALSE)
    /\ \E k \in 1..Len(SectionStarts) :
          /\ SectionEntries[k].name = "step"
          /\ SectionRequired[k] = <<"step">>
          /\ SectionLines(k)[3] = RequiredLine(TRUE)

-----------------------------------------------------------------------------
(* Claims about the site loader.                                           *)

\* how often record r occurs in list
Occurrences(list, r) == Cardinality({i \in 1..Len(list) : list[i] = r})

\* the records of the files the loader takes records from
LoadedRecords ==
    LET admitted == admittedModules(pluginModules)
    IN  [i \in 1..Len(admitted) |-> admitted[i].default]

\* id, slug, name and status are all present and none is empty
Complete(r) ==
    /\ r # Null
    /\ {"id", "slug", "name", "status"} \subseteq DOMAIN r
    /\ r.id # "" /\ r.slug # "" /\ r.name # "" /\ r.status # ""

\* C28: loadAllPlugins returns exactly the loaded records whose id, slug,
\* name and status are all present and non-empty, each as often as it was
\* loaded; every record with status active stands before every record with
\* another status, and within each of the two groups the names ascend.
C28_LoaderResult ==
    pc = "returned" =>
        /\ \A r \in LoaderRecords :
              Occurrences(plugins, r) =
                 IF Complete(r) THEN Occurrences(LoadedRecords, r) ELSE 0
        /\ Len(plugins) <= Len(LoadedRecords)
        /\ \A i, j \in 1..Len(plugins) :
              i < j =>
                 /\ plugins[j].status = "active" => plugins[i].status = "active"
                 /\ (plugins[i].status = "active" <=> plugins[j].status = "active")
                       => localeCompare(plugins[i].name, plugins[j].name) <= 0

\* a record is dropped, and the two that are returned changed places
C28_Witness ==
    /\ pc = "returned"
    /\ Len(LoadedRecords) = 3
    /\ Len(plugins) = 2
    /\ plugins[1].status = "active"
    /\ plugins[2].status = "beta"
    /\ LoadedRecords[1] = plugins[2]
    /\ LoadedRecords[3] = plugins[1]
    /\ Len(console) = 1


\* the names of the files validate-plugins validates in this directory
ValidatedNames == {fsDir[i] : i \in {k \in 1..Len(fsDir) : IsPluginFile(fsDir[k])}}

\* the name of the file a module or a warning stands for
NameOf(filepath) == Tail(filepath)

\* C29: every file the loader takes a record from is a file validate-plugins
\* validates: the modules it does not skip, the records it returns and the
\* files it warns about all belong to files that end in .json and are not
\* called schema.json.
C29_LoaderWithinValidator ==
    pc = "returned" =>
        /\ \A i \in 1..Len(pluginModules) :
              ~loaderSkips(pluginModules[i].filepath)
                 => NameOf(pluginModules[i].filepath) \in ValidatedNames
        /\ \A i \in 1..Len(plugins) :
              \E f \in ValidatedNames : fsFiles[f] = plugins[i]
        /\ \A i \in 1..Len(console) :
              \E f \in ValidatedNames :
                 console[i].text = <<"Plugin at ", GlobDir>> \o f
                                   \o <<" is missing required fields">>

\* schema.json and my-schema.json stand next to a record that is returned
\* and one that is warned about
C29_Witness ==
    /\ pc = "returned"
    /\ \E i \in 1..Len(fsDir) : fsDir[i] = SchemaName
    /\ \E i \in 1..Len(fsDir) : fsDir[i] = LookalikeName
    /\ LookalikeName \in ValidatedNames
    /\ Len(plugins) >= 1
    /\ Len(console) >= 1

-----------------------------------------------------------------------------
(* Claims about the deployment validation script.                          *)

\* C30: the script runs every check and reaches the Validation Summary,
\* where Total checks = Passed + Failed + warnings; it exits with status 0
\* exactly when the Failed counter is 0; incrementing a counter never ends
\* it early.
C30_RunsToSummary ==
    pc = "exited" =>
        /\ idx = Len(outcomes)
        /\ \E k \in 1..Len(console) : console[k].text = <<"[?] Validation Summary">>
        /\ CHECKS_TOTAL = CHECKS_PASSED + CHECKS_FAILED
                          + Cardinality({i \in 1..Len(outcomes) : outcomes[i] = "warn"})
        /\ exitCode = 0 <=> CHECKS_FAILED = 0

====
